---------------------------- MODULE Spec2Model ----------------------------
(***************************************************************************)
(* A model of the ProfitPal backend: the referral credit ledger            *)
(* (referral_manager.py), the session layer (security.py, auth_manager.py) *)
(* and the administrative login (auth_manager.py, main.py).                *)
(*                                                                         *)
(* The durable store is SQLite.  Every manager method opens a connection   *)
(* of its own.  Python's sqlite3 module opens a (deferred) transaction     *)
(* before the first INSERT/UPDATE of a connection and not before a SELECT, *)
(* so each SELECT reads the committed tables on its own, the first write   *)
(* statement takes the database's single write lock, and the writes become *)
(* visible to the other connections together, at commit.                   *)
(***************************************************************************)
EXTENDS Integers, Sequences, FiniteSets, TLC

VARIABLES
    \* ---- referrals.db (committed contents) ----
    referrals,            \* table referrals: a set of rows
    referral_uses,        \* table referral_uses: rows in insertion order
    free_months_history,  \* table free_months_history: rows in insertion order
    writer,               \* the worker that holds SQLite's write lock, 0 if none
    txn,                  \* <<pending tables>> of the writer's open transaction, else <<>>
    \* ---- request workers running ReferralManager methods ----
    pc,                   \* worker -> position in the method it runs
    op,                   \* worker -> the call it runs (method and arguments)
    loc,                  \* worker -> the method's local variables
    ret,                  \* worker -> the value the method returned
    pre,                  \* worker -> the committed tables when the call began (observation)
    prev,                 \* the last call that returned before this one (observation)
    calls,                \* number of calls started
    \* ---- profitpal_auth.db ----
    users,                \* table users: a set of rows (e-mail and name shown decrypted)
    user_sessions,        \* table user_sessions: a set of rows
    login_attempts,       \* table login_attempts: rows in insertion order
    \* ---- the world around the session layer ----
    now,                  \* the clock, in ticks since the start (UTC)
    advances,             \* number of times the clock was moved
    resp,                 \* the last request and the response it got (observation)
    login,                \* the last login call and what it returned (observation)
    \* ---- callers of the credential store ----
    creating,             \* worker -> the create_user call it is in the middle of
    cred,                 \* the last call on the credential store and its result (observation)
    \* ---- callers of create_referral_for_user ----
    issuing,              \* worker -> the create_referral_for_user call it is in the middle of
    issued,               \* the calls of create_referral_for_user that returned, in order (observation)
    \* ---- requests to the routes behind require_user and require_plan ----
    gate,                 \* the last such request, what befell its lookup, and the answer (observation)
    \* ---- the environment of the process ----
    env,                  \* the environment variables ADMIN_EMAIL and ADMIN_LICENSE_KEY
    \* ---- deliveries to /stripe-webhook ----
    hook                  \* the last checkout.session.completed event delivered and what it did (observation)

ledgerVars == <<referrals, referral_uses, free_months_history, writer, txn,
                pc, op, loc, ret, pre, prev, calls>>

issueVars == <<issuing, issued>>

gateVars == <<gate>>

credVars == <<creating, cred, issueVars, gateVars, env, hook>>

authVars == <<users, user_sessions, login_attempts, now, advances, resp, login, credVars>>

vars == <<ledgerVars, authVars>>

-----------------------------------------------------------------------------
(* Bounds *)

\* calls of ReferralManager methods in one run
MaxCalls == 3

\* request workers (the processes or threads that serve requests)
Workers == {1, 2}

\* e-mail addresses that occur as referrer, as new user and as billed user
Emails == {"alice", "bob", "carol"}

\* referral codes: "A" is alice's, "B" is bob's, "X" is held by nobody
Codes == {"A", "B", "X"}

\* the e-mails that sign up under a code
NewEmails == {"bob", "carol"}

\* payment amounts in cents (29.99 in the webhook, 24.99 the default)
Amounts == {2499, 2999}

\* 7.99, the monthly charge, in cents
FullCharge == 799

-----------------------------------------------------------------------------
(* Tables *)

Tables(r, u, h) == [referrals |-> r, referral_uses |-> u, free_months_history |-> h]

Committed == Tables(referrals, referral_uses, free_months_history)

\* What worker p's connection reads: its own open transaction, else the committed tables.
View(p) == IF writer = p /\ txn # <<>> THEN txn[1] ELSE Committed

NoOp  == [name |-> "none", referral_code |-> "none", new_user_email |-> "none",
          payment_amount |-> 0, user_email |-> "none"]
NoLoc == [referrer_email |-> "none", current_balance |-> 0, total_referrals |-> 0,
          new_balance |-> 0, new_total_referrals |-> 0, new_total_earned |-> 0]
NoRet == [kind |-> "none", success |-> FALSE, should_charge |-> FALSE,
          charge_amount |-> 0, free_months_remaining |-> 0, new_balance |-> 0,
          referrer_email |-> "none", error |-> "none"]
NoPrev == [op |-> NoOp, ret |-> NoRet, pre |-> Tables({}, <<>>, <<>>)]

\* CREATE TABLE referrals: one row
ReferralRow(email, code, bal, tot, earned) ==
    [user_email |-> email, referral_code |-> code, free_months_balance |-> bal,
     total_referrals |-> tot, total_earned_months |-> earned]

\* The rows create_referral_for_user has stored for alice and bob: zero balance,
\* zero counters.
IssuedRecords == {ReferralRow("alice", "A", 0, 0, 0), ReferralRow("bob", "B", 0, 0, 0)}


-----------------------------------------------------------------------------
(* profitpal_auth.db and the clock *)

\* sessions stored in one run
MaxSessions == 1

\* moves of the clock in one run
MaxAdvances == 3

\* ticks of the clock per calendar day (the resolution of the time of day)
DayLen == 2

\* create_session(..., days=30); timedelta(days=30) in AuthManager.create_session
SessionDays == 30

\* Character strings are sequences of characters.
Str(c1, c2, c3, c4) == <<c1, c2, c3, c4>>

\* CREATE TABLE users: one row.  encrypted_email and encrypted_full_name are
\* shown as the text they decrypt to.
UserRow(id, email, name, key, status, active) ==
    [id |-> id, email |-> email, full_name |-> name, license_key |-> key,
     payment_status |-> status, is_active |-> active]

\* The rows create_user has stored for two paying users.
RegisteredUsers ==
    {UserRow(1, "alice", "Alice", Str("P", "P", "-", "1"), "completed", TRUE),
     UserRow(2, "bob", "Bob", Str("P", "P", "-", "2"), "completed", TRUE)}

UserIds == {u.id : u \in RegisteredUsers}

\* A timestamp as the text stored and compared: the calendar date, the
\* separator between date and time, the time of day.
\*   strftime("%Y-%m-%d %H:%M:%S") and SQLite's datetime('now'): "date time"
\*   datetime.isoformat():                                       "dateTtime"
Stamp(sep, t) == [date |-> t \div DayLen, sep |-> sep, time |-> t % DayLen]

\* the instant a stored timestamp denotes
Instant(ts) == ts.date * DayLen + ts.time

\* the character code of the separator: " " is 32, "T" is 84
SepCode(sep) == IF sep = " " THEN 32 ELSE 84

\* a > b in SQLite on two TEXT values: byte by byte, first difference decides
TextGreater(a, b) ==
    \/ a.date > b.date
    \/ a.date = b.date /\ SepCode(a.sep) > SepCode(b.sep)
    \/ a.date = b.date /\ a.sep = b.sep /\ a.time > b.time

\* the cookie values and header values a request carries
NoToken == 0
Absent == [kind |-> "absent", n |-> 0]
Forged == [kind |-> "forged", n |-> 0]
\* csrf = secrets.token_urlsafe(24): a fresh value, returned with the session
\* token and never stored by the server
IssuedCsrf(token) == [kind |-> "issued", n |-> token]

NoUser == [id |-> 0, is_active |-> FALSE, plan_type |-> "none",
           subscription_status |-> "none"]
NoResp == [endpoint |-> "none", token |-> NoToken, cookie |-> Absent, header |-> Absent,
           status |-> 0, user |-> NoUser]

\* ---- character strings: license keys as typed and as stored ----

\* str.upper() on one character
UpperChar(c) ==
    IF c = "a" THEN "A" ELSE IF c = "d" THEN "D" ELSE IF c = "p" THEN "P" ELSE c

\* str.upper()
Upper(s) == [i \in 1..Len(s) |-> UpperChar(s[i])]

\* str.replace(c, "")
Remove(s, c) == SelectSeq(s, LAMBDA x : x # c)

\* str.strip(): white space off both ends
RECURSIVE LStrip(_)
LStrip(s) == IF s # <<>> /\ Head(s) = " " THEN LStrip(Tail(s)) ELSE s

RECURSIVE RStrip(_)
RStrip(s) ==
    IF s # <<>> /\ s[Len(s)] = " " THEN RStrip(SubSeq(s, 1, Len(s) - 1)) ELSE s

Strip(s) == RStrip(LStrip(s))

\* str.isalnum() on one character
IsAlnum(c) == c \in {"A", "D", "P", "a", "d", "p", "1", "2", "3", "4", "5", "6"}

\* An e-mail address as typed: the address, whether it is typed in capitals,
\* whether it is typed with blanks around it.
EmailText(name, upper, padded) == [name |-> name, upper |-> upper, padded |-> padded]

\* the address in lower case without blanks, as create_user stores it
Plain(name) == EmailText(name, FALSE, FALSE)

\* str.lower() and str.strip() on an e-mail address
LowerEmail(e) == [e EXCEPT !.upper = FALSE]
StripEmail(e) == [e EXCEPT !.padded = FALSE]

\* ---- the administrator of the environment ----
\* ADMIN_EMAIL and ADMIN_LICENSE_KEY, as main.py and authenticate_user_login
\* read them from the environment
\* read them from the environment; a variable that is not set reads as the
\* empty text (os.getenv(name, "") or "")
Configured == [ADMIN_EMAIL |-> "admin", ADMIN_LICENSE_KEY |-> Str("A", "D", "-", "1")]

ADMIN_EMAIL == env.ADMIN_EMAIL
ADMIN_LICENSE_KEY == env.ADMIN_LICENSE_KEY
ADMIN_FULL_NAME == "System Administrator"

NoLogin == [path |-> "none", email |-> Plain("none"), license_key |-> <<>>,
            status |-> 0, authenticated |-> FALSE, role |-> "none",
            token |-> NoToken, user_id |-> 0, stored |-> FALSE,
            read_store |-> FALSE, wrote_store |-> FALSE]

\* a worker that is in no create_user call
NotCreating == [phase |-> "idle", email |-> Plain("none"), full_name |-> "none"]

\* no request to a guarded route yet
NoGate == [call |-> "none", token |-> NoToken, required |-> "none", fault |-> "none",
           status |-> 0, user |-> NoUser]

\* no create_referral_for_user call in progress
NotIssuing == [phase |-> "idle", user_email |-> "none", referral_code |-> <<>>, begun |-> 0]

\* no event was delivered to /stripe-webhook yet
NoHook == [email |-> "none", referral_code |-> <<>>, deliveries |-> 0,
           existed |-> FALSE, again |-> FALSE, created |-> FALSE]

\* no call on the credential store was made yet
NoCred == [call |-> "none", email |-> Plain("none"), license_key |-> <<>>,
           status |-> 0, valid |-> FALSE, error |-> "none", found |-> <<>>,
           returned_key |-> <<>>, logged |-> <<>>]

\* the auth database holding the rows `rows` in users, nothing else stored,
\* in a process started with the environment e
AuthStartUnder(e, rows) ==
    /\ env = e
    /\ hook = NoHook
    /\ login = NoLogin
    /\ creating = [p \in Workers |-> NotCreating]
    /\ cred = NoCred
    /\ issuing = [p \in Workers |-> NotIssuing]
    /\ issued = <<>>
    /\ gate = NoGate
    /\ users = rows
    /\ user_sessions = {}
    /\ login_attempts = <<>>
    /\ now = 0
    /\ advances = 0
    /\ resp = NoResp

AuthStartWith(rows) == AuthStartUnder(Configured, rows)

AuthStart == AuthStartWith(RegisteredUsers)

-----------------------------------------------------------------------------
(* SQL statements of referral_manager.py, as operators on the tables *)

\* SELECT user_email, free_months_balance, total_referrals FROM referrals
\* WHERE referral_code = ?
RowsByCode(t, code) == {r \in t.referrals : r.referral_code = code}

\* SELECT free_months_balance FROM referrals WHERE user_email = ?
RowsByEmail(t, email) == {r \in t.referrals : r.user_email = email}

\* SELECT COUNT(*) FROM referral_uses WHERE referral_code = ? AND new_user_email = ?
UseCount(t, code, email) ==
    Cardinality({i \in 1..Len(t.referral_uses) :
                    /\ t.referral_uses[i].referral_code = code
                    /\ t.referral_uses[i].new_user_email = email})

\* already_used = cursor.fetchone()[0] > 0
AlreadyUsedTwice(t, code, email) == UseCount(t, code, email) > 1
AlreadyUsed(t, code, email) == UseCount(t, code, email) > 0

\* reward_months = 1
RewardMonths == 1

\* UPDATE referrals SET free_months_balance = ?, total_referrals = ?,
\* total_earned_months = ? WHERE referral_code = ?
UpdateReferrer(t, code, bal, tot, earned) ==
    [t EXCEPT !.referrals =
        {IF r.referral_code = code
            THEN [r EXCEPT !.free_months_balance = bal, !.total_referrals = tot,
                           !.total_earned_months = earned]
            ELSE r : r \in t.referrals}]

\* INSERT INTO referral_uses (referral_code, referrer_email, new_user_email,
\* payment_amount, reward_months)
InsertUse(t, code, referrer, email, amount, reward) ==
    [t EXCEPT !.referral_uses = Append(@,
        [referral_code |-> code, referrer_email |-> referrer, new_user_email |-> email,
         payment_amount |-> amount, reward_months |-> reward])]

\* INSERT INTO free_months_history (user_email, action_type, months_change, balance_after)
InsertHistory(t, email, action, change, after) ==
    [t EXCEPT !.free_months_history = Append(@,
        [user_email |-> email, action_type |-> action, months_change |-> change,
         balance_after |-> after])]

\* UPDATE referrals SET free_months_balance = ? WHERE user_email = ?
UpdateBalance(t, email, bal) ==
    [t EXCEPT !.referrals =
        {IF r.user_email = email THEN [r EXCEPT !.free_months_balance = bal] ELSE r
            : r \in t.referrals}]

\* if current_balance > 0: a free month is used
HasFreeMonthAtZero(balance) == balance >= 0
HasFreeMonth(balance) == balance > 0

\* The first INSERT/UPDATE of a connection opens its transaction and takes the
\* write lock; the next ones go on in it.
CanWrite(p) == writer = 0 \/ writer = p

\* A write statement inside the connection's transaction: the committed tables
\* stay as they are, the new rows are pending until conn.commit().
AutocommitWrite(t) == [tables |-> t, pending |-> <<t>>]
DeferredWrite(t) == [tables |-> Committed, pending |-> <<t>>]

\* The tables worker p's write statements work on.
Pending(p) == IF writer = p /\ txn # <<>> THEN txn[1] ELSE Committed

\* The effect of one write statement of worker p that leaves the tables t.
Write(p, t) ==
    /\ CanWrite(p)
    /\ writer' = p
    /\ txn' = DeferredWrite(t).pending
    /\ referrals' = DeferredWrite(t).tables.referrals
    /\ referral_uses' = DeferredWrite(t).tables.referral_uses
    /\ free_months_history' = DeferredWrite(t).tables.free_months_history

\* conn.commit(): the pending tables become the committed ones, all together,
\* and the write lock is free again.
Commit(p) ==
    /\ writer = p /\ txn # <<>>
    /\ referrals' = txn[1].referrals
    /\ referral_uses' = txn[1].referral_uses
    /\ free_months_history' = txn[1].free_months_history
    /\ writer' = 0
    /\ txn' = <<>>

-----------------------------------------------------------------------------
(* Return values *)

SignupRejected(msg) == [NoRet EXCEPT !.kind = "redeem", !.success = FALSE, !.error = msg]

SignupAccepted(referrer, bal) ==
    [NoRet EXCEPT !.kind = "redeem", !.success = TRUE, !.referrer_email = referrer,
                  !.new_balance = bal]

ChargeInFull(msg) ==
    [NoRet EXCEPT !.kind = "consume", !.should_charge = TRUE,
                  !.charge_amount = FullCharge, !.free_months_remaining = 0,
                  !.error = msg]

FreeMonthUsedStale(bal) ==
    [NoRet EXCEPT !.kind = "consume", !.should_charge = FALSE, !.charge_amount = 0,
                  !.free_months_remaining = bal + 1]

FreeMonthUsed(bal) ==
    [NoRet EXCEPT !.kind = "consume", !.should_charge = FALSE, !.charge_amount = 0,
                  !.free_months_remaining = bal]

-----------------------------------------------------------------------------
(* A worker starts and ends a call *)

SignupCalls == {[NoOp EXCEPT !.name = "process_referral_signup", !.referral_code = c,
                             !.new_user_email = e, !.payment_amount = a]
                    : c \in Codes, e \in NewEmails, a \in Amounts}

FreeMonthCalls == {[NoOp EXCEPT !.name = "check_and_use_free_month", !.user_email = e]
                    : e \in Emails}

Call(p) ==
    /\ pc[p] = "idle"
    /\ calls < MaxCalls
    /\ \E c \in SignupCalls \cup FreeMonthCalls :
          /\ op' = [op EXCEPT ![p] = c]
          /\ pc' = [pc EXCEPT ![p] =
                       IF c.name = "process_referral_signup" THEN "signup_select"
                                                             ELSE "month_select"]
    /\ pre' = [pre EXCEPT ![p] = Committed]
    /\ calls' = calls + 1
    /\ UNCHANGED <<referrals, referral_uses, free_months_history, writer, txn,
                   loc, ret, prev>>
    /\ UNCHANGED authVars

\* The method has returned; the worker is free for the next request.
Return(p) ==
    /\ pc[p] = "done"
    /\ prev' = [op |-> op[p], ret |-> ret[p], pre |-> pre[p]]
    /\ pc' = [pc EXCEPT ![p] = "idle"]
    /\ op' = [op EXCEPT ![p] = NoOp]
    /\ ret' = [ret EXCEPT ![p] = NoRet]
    /\ pre' = [pre EXCEPT ![p] = Tables({}, <<>>, <<>>)]
    /\ UNCHANGED <<referrals, referral_uses, free_months_history, writer, txn,
                   loc, calls>>
    /\ UNCHANGED authVars

\* A return statement of a method: the result, and the locals are gone.
Finish(p, result) ==
    /\ ret' = [ret EXCEPT ![p] = result]
    /\ loc' = [loc EXCEPT ![p] = NoLoc]
    /\ pc' = [pc EXCEPT ![p] = "done"]


dbUnchanged == UNCHANGED <<referrals, referral_uses, free_months_history, writer, txn>>

-----------------------------------------------------------------------------
(* ReferralManager.process_referral_signup, statement by statement *)

\* SELECT user_email, free_months_balance, total_referrals ... WHERE referral_code = ?
\* if not referrer_data: return 'Invalid referral code'
Signup_SelectReferrer(p) ==
    /\ pc[p] = "signup_select"
    /\ LET rows == RowsByCode(View(p), op[p].referral_code) IN
         IF rows = {}
           THEN Finish(p, SignupRejected("Invalid referral code"))
           ELSE LET r == CHOOSE x \in rows : TRUE IN
                /\ loc' = [loc EXCEPT ![p] =
                              [NoLoc EXCEPT !.referrer_email = r.user_email,
                                            !.current_balance = r.free_months_balance,
                                            !.total_referrals = r.total_referrals]]
                /\ pc' = [pc EXCEPT ![p] = "signup_check"]
                /\ ret' = ret
    /\ dbUnchanged
    /\ UNCHANGED <<op, pre, prev, calls>>
    /\ UNCHANGED authVars

\* SELECT COUNT(*) FROM referral_uses ...; if already_used: return
Signup_CheckUsed(p) ==
    /\ pc[p] = "signup_check"
    /\ IF AlreadyUsed(View(p), op[p].referral_code, op[p].new_user_email)
         THEN Finish(p, SignupRejected("Referral code already used by this user"))
         ELSE /\ pc' = [pc EXCEPT ![p] = "signup_earned"]
              /\ UNCHANGED <<loc, ret>>
    /\ dbUnchanged
    /\ UNCHANGED <<op, pre, prev, calls>>
    /\ UNCHANGED authVars

\* new_balance = current_balance + reward_months
\* new_total_referrals = total_referrals + 1
\* new_total_earned = SELECT total_earned_months ... fetchone()[0] + reward_months
\* (no row: fetchone() is None and the subscript raises, the except branch returns)
Signup_SelectEarned(p) ==
    /\ pc[p] = "signup_earned"
    /\ LET rows == RowsByCode(View(p), op[p].referral_code) IN
         IF rows = {}
           THEN Finish(p, SignupRejected("exception"))
           ELSE LET r == CHOOSE x \in rows : TRUE IN
                /\ loc' = [loc EXCEPT ![p].new_balance = loc[p].current_balance + RewardMonths,
                                      ![p].new_total_referrals = loc[p].total_referrals + 1,
                                      ![p].new_total_earned = r.total_earned_months + RewardMonths]
                /\ pc' = [pc EXCEPT ![p] = "signup_update"]
                /\ ret' = ret
    /\ dbUnchanged
    /\ UNCHANGED <<op, pre, prev, calls>>
    /\ UNCHANGED authVars

\* UPDATE referrals SET free_months_balance = ?, total_referrals = ?, total_earned_months = ?
Signup_Update(p) ==
    /\ pc[p] = "signup_update"
    /\ Write(p, UpdateReferrer(Pending(p), op[p].referral_code, loc[p].new_balance,
                               loc[p].new_total_referrals, loc[p].new_total_earned))
    /\ pc' = [pc EXCEPT ![p] = "signup_insert_use"]
    /\ UNCHANGED <<op, loc, ret, pre, prev, calls>>
    /\ UNCHANGED authVars

\* INSERT INTO referral_uses
Signup_InsertUse(p) ==
    /\ pc[p] = "signup_insert_use"
    /\ Write(p, InsertUse(Pending(p), op[p].referral_code, loc[p].referrer_email,
                          op[p].new_user_email, op[p].payment_amount, RewardMonths))
    /\ pc' = [pc EXCEPT ![p] = "signup_insert_history"]
    /\ UNCHANGED <<op, loc, ret, pre, prev, calls>>
    /\ UNCHANGED authVars

\* INSERT INTO free_months_history ... 'earned'
Signup_InsertHistory(p) ==
    /\ pc[p] = "signup_insert_history"
    /\ Write(p, InsertHistory(Pending(p), loc[p].referrer_email, "earned", RewardMonths,
                              loc[p].new_balance))
    /\ pc' = [pc EXCEPT ![p] = "signup_commit"]
    /\ UNCHANGED <<op, loc, ret, pre, prev, calls>>
    /\ UNCHANGED authVars

\* conn.commit(); return success
Signup_Commit(p) ==
    /\ pc[p] = "signup_commit"
    /\ Commit(p)
    /\ Finish(p, SignupAccepted(loc[p].referrer_email, loc[p].new_balance))
    /\ UNCHANGED <<op, pre, prev, calls>>
    /\ UNCHANGED authVars

-----------------------------------------------------------------------------
(* ReferralManager.check_and_use_free_month, statement by statement *)

\* SELECT free_months_balance FROM referrals WHERE user_email = ?
\* no row: charge; balance > 0: go on to use a month; else charge
FreeMonth_Select(p) ==
    /\ pc[p] = "month_select"
    /\ LET rows == RowsByEmail(View(p), op[p].user_email) IN
         IF rows = {}
           THEN Finish(p, ChargeInFull("none"))
           ELSE LET r == CHOOSE x \in rows : TRUE IN
                IF HasFreeMonth(r.free_months_balance)
                  THEN /\ loc' = [loc EXCEPT ![p] =
                                     [NoLoc EXCEPT !.current_balance = r.free_months_balance,
                                                   !.new_balance = r.free_months_balance - 1]]
                       /\ pc' = [pc EXCEPT ![p] = "month_update"]
                       /\ ret' = ret
                  ELSE Finish(p, ChargeInFull("none"))
    /\ dbUnchanged
    /\ UNCHANGED <<op, pre, prev, calls>>
    /\ UNCHANGED authVars

\* UPDATE referrals SET free_months_balance = ? WHERE user_email = ?
FreeMonth_Update(p) ==
    /\ pc[p] = "month_update"
    /\ Write(p, UpdateBalance(Pending(p), op[p].user_email, loc[p].new_balance))
    /\ pc' = [pc EXCEPT ![p] = "month_insert_history"]
    /\ UNCHANGED <<op, loc, ret, pre, prev, calls>>
    /\ UNCHANGED authVars

\* INSERT INTO free_months_history ... 'used', -1
FreeMonth_InsertHistory(p) ==
    /\ pc[p] = "month_insert_history"
    /\ Write(p, InsertHistory(Pending(p), op[p].user_email, "used", -1, loc[p].new_balance))
    /\ pc' = [pc EXCEPT ![p] = "month_commit"]
    /\ UNCHANGED <<op, loc, ret, pre, prev, calls>>
    /\ UNCHANGED authVars

\* conn.commit(); return should_charge False
FreeMonth_Commit(p) ==
    /\ pc[p] = "month_commit"
    /\ Commit(p)
    /\ Finish(p, FreeMonthUsed(loc[p].new_balance))
    /\ UNCHANGED <<op, pre, prev, calls>>
    /\ UNCHANGED authVars

\* A statement raises (sqlite3.Error: the file cannot be read or written, or
\* "database is locked" when another connection keeps the write lock for longer
\* than the timeout).  The method's except branch returns: an error for the
\* signup, a full charge for the billing gate.  The connection is dropped with
\* the method's frame, which rolls its open transaction back.
ExceptReturnWaives(name) ==
    IF name = "process_referral_signup" THEN SignupRejected("exception")
                                        ELSE [FreeMonthUsed(0) EXCEPT !.error = "exception"]

ExceptReturn(name) ==
    IF name = "process_referral_signup" THEN SignupRejected("exception")
                                        ELSE ChargeInFull("exception")

Rollback(p) ==
    /\ writer' = IF writer = p THEN 0 ELSE writer
    /\ txn' = IF writer = p THEN <<>> ELSE txn
    /\ UNCHANGED <<referrals, referral_uses, free_months_history>>

StorageError(p) ==
    /\ pc[p] \notin {"idle", "done"}
    /\ Finish(p, ExceptReturn(op[p].name))
    /\ Rollback(p)
    /\ UNCHANGED <<op, pre, prev, calls>>
    /\ UNCHANGED authVars

-----------------------------------------------------------------------------
(* Specifications of the ledger *)

LedgerStartWith(rows) ==
    /\ referrals = rows
    /\ referral_uses = <<>>
    /\ free_months_history = <<>>
    /\ writer = 0
    /\ txn = <<>>
    /\ pc = [p \in Workers |-> "idle"]
    /\ op = [p \in Workers |-> NoOp]
    /\ loc = [p \in Workers |-> NoLoc]
    /\ ret = [p \in Workers |-> NoRet]
    /\ pre = [p \in Workers |-> Tables({}, <<>>, <<>>)]
    /\ prev = NoPrev
    /\ calls = 0

LedgerStart == LedgerStartWith(IssuedRecords)

Init == LedgerStart /\ AuthStart

Statement(p) ==
    \/ Signup_SelectReferrer(p)
    \/ Signup_CheckUsed(p)
    \/ Signup_SelectEarned(p)
    \/ Signup_Update(p)
    \/ Signup_InsertUse(p)
    \/ Signup_InsertHistory(p)
    \/ Signup_Commit(p)
    \/ FreeMonth_Select(p)
    \/ FreeMonth_Update(p)
    \/ FreeMonth_InsertHistory(p)
    \/ FreeMonth_Commit(p)

\* Requests are served by several workers at once over the one database file.
Next == \E p \in Workers : Call(p) \/ Statement(p) \/ StorageError(p) \/ Return(p)

Spec == Init /\ [][Next]_vars

\* One worker serves one request after the other.
SerialWorker == 1

SerialNext ==
    \/ Call(SerialWorker)
    \/ Statement(SerialWorker)
    \/ StorageError(SerialWorker)
    \/ Return(SerialWorker)

SerialSpec == Init /\ [][SerialNext]_vars

-----------------------------------------------------------------------------
(* Properties of the ledger *)

\* rows of free_months_history of one e-mail and one action type
HistoryCount(t, email, action) ==
    Cardinality({i \in 1..Len(t.free_months_history) :
                    /\ t.free_months_history[i].user_email = email
                    /\ t.free_months_history[i].action_type = action})

BalanceOf(t, email) ==
    LET rows == RowsByEmail(t, email) IN (CHOOSE r \in rows : TRUE).free_months_balance

IsSignup(p) == op[p].name = "process_referral_signup"
IsFreeMonth(p) == op[p].name = "check_and_use_free_month"
Raised(r) == r.error = "exception"

\* C1: ledger conservation.  After any sequence of process_referral_signup and
\* check_and_use_free_month calls, the stored free_months_balance of every
\* referral record equals the number of 'earned' history rows minus the number
\* of 'used' history rows of its e-mail, and it is never negative.
C1_LedgerConservation ==
    \A r \in referrals :
        /\ r.free_months_balance =
              HistoryCount(Committed, r.user_email, "earned")
                - HistoryCount(Committed, r.user_email, "used")
        /\ r.free_months_balance >= 0

\* alice has earned two months and used one of them
C1_Witness ==
    /\ HistoryCount(Committed, "alice", "earned") = 2
    /\ HistoryCount(Committed, "alice", "used") = 1
    /\ BalanceOf(Committed, "alice") = 1

\* C2: of two concurrent check_and_use_free_month calls for one e-mail that both
\* began with balance 1, at most one reports should_charge = False: the free
\* months granted never exceed the credits that were there.
C2_OneFreeMonthPerCredit ==
    \A p, q \in Workers :
        ( /\ p # q
          /\ pc[p] = "done" /\ pc[q] = "done"
          /\ IsFreeMonth(p) /\ IsFreeMonth(q)
          /\ op[p].user_email = op[q].user_email
          /\ RowsByEmail(pre[p], op[p].user_email) # {}
          /\ RowsByEmail(pre[q], op[q].user_email) # {}
          /\ BalanceOf(pre[p], op[p].user_email) = 1
          /\ BalanceOf(pre[q], op[q].user_email) = 1 )
        => ~(ret[p].should_charge = FALSE /\ ret[q].should_charge = FALSE)

\* C3: of two concurrent process_referral_signup calls with the same
\* (referral code, new user e-mail), at most one is accepted: the pair has at
\* most one referral_uses row and the referrer's balance has risen by exactly 1.
C3_PairRedeemedOnce ==
    \A c \in Codes, e \in NewEmails :
        /\ UseCount(Committed, c, e) <= 1
        /\ \A p, q \in Workers :
              ( /\ p # q
                /\ pc[p] = "done" /\ pc[q] = "done"
                /\ IsSignup(p) /\ IsSignup(q)
                /\ op[p].referral_code = c /\ op[q].referral_code = c
                /\ op[p].new_user_email = e /\ op[q].new_user_email = e )
              => ~(ret[p].success /\ ret[q].success)

\* C4: redemption exactly once.  For an existing code and a new user e-mail not
\* yet recorded under it, process_referral_signup called twice in sequence with
\* identical arguments is accepted the first time, rejected the second time,
\* and the referrer's balance is 1 higher in total.
C4_RedeemExactlyOnce ==
    \A p \in Workers :
        ( /\ pc[p] = "done"
          /\ IsSignup(p)
          /\ prev.op = op[p]
          /\ RowsByCode(prev.pre, op[p].referral_code) # {}
          /\ ~AlreadyUsed(prev.pre, op[p].referral_code, op[p].new_user_email)
          /\ ~Raised(prev.ret) /\ ~Raised(ret[p]) )
        => LET before == CHOOSE r \in RowsByCode(prev.pre, op[p].referral_code) : TRUE
               after  == CHOOSE r \in RowsByCode(Committed, op[p].referral_code) : TRUE
           IN /\ prev.ret.success
              /\ ~ret[p].success
              /\ ret[p].error = "Referral code already used by this user"
              /\ after.free_months_balance = before.free_months_balance + 1
              /\ UseCount(Committed, op[p].referral_code, op[p].new_user_email) = 1

\* the second of two identical signups under alice's code has returned
C4_Witness ==
    \E p \in Workers :
        /\ pc[p] = "done" /\ IsSignup(p) /\ prev.op = op[p]
        /\ op[p].referral_code = "A"
        /\ prev.ret.success /\ ~ret[p].success
        /\ BalanceOf(Committed, "alice") = 1

\* The tables an accepted signup leaves, written out from the tables before it.
SignupEffect(t, o) ==
    LET old == CHOOSE r \in RowsByCode(t, o.referral_code) : TRUE
        new == ReferralRow(old.user_email, old.referral_code,
                           old.free_months_balance + 1, old.total_referrals + 1,
                           old.total_earned_months + 1)
    IN Tables((t.referrals \ {old}) \cup {new},
              t.referral_uses \o
                 << [referral_code |-> o.referral_code, referrer_email |-> old.user_email,
                     new_user_email |-> o.new_user_email,
                     payment_amount |-> o.payment_amount, reward_months |-> 1] >>,
              t.free_months_history \o
                 << [user_email |-> old.user_email, action_type |-> "earned",
                     months_change |-> 1,
                     balance_after |-> old.free_months_balance + 1] >>)

FreeMonthEffect(t, email) ==
    LET old == CHOOSE r \in RowsByEmail(t, email) : TRUE
        new == [old EXCEPT !.free_months_balance = old.free_months_balance - 1]
    IN Tables((t.referrals \ {old}) \cup {new},
              t.referral_uses,
              t.free_months_history \o
                 << [user_email |-> email, action_type |-> "used", months_change |-> -1,
                     balance_after |-> old.free_months_balance - 1] >>)

\* C6: the billing gate.  check_and_use_free_month returns: without a referral
\* record, a full charge and no change; with balance > 0, should_charge False,
\* charge_amount 0 and free_months_remaining the balance after it was lowered
\* by exactly 1 and one 'used' history row was appended; with balance 0, a full
\* charge, 0 remaining and no change.  With balance 1 the first call reports no
\* charge and 0 remaining, the next call a full charge.
C6_BillingGate ==
    \A p \in Workers :
        (pc[p] = "done" /\ IsFreeMonth(p) /\ ~Raised(ret[p])) =>
            LET rows == RowsByEmail(pre[p], op[p].user_email) IN
            /\ rows = {} =>
                  /\ ret[p] = ChargeInFull("none")
                  /\ ret[p].should_charge /\ ret[p].charge_amount = 799
                  /\ Committed = pre[p]
            /\ (rows # {} /\ BalanceOf(pre[p], op[p].user_email) > 0) =>
                  /\ ~ret[p].should_charge
                  /\ ret[p].charge_amount = 0
                  /\ ret[p].free_months_remaining = BalanceOf(pre[p], op[p].user_email) - 1
                  /\ Committed = FreeMonthEffect(pre[p], op[p].user_email)
            /\ (rows # {} /\ BalanceOf(pre[p], op[p].user_email) = 0) =>
                  /\ ret[p].should_charge /\ ret[p].charge_amount = 799
                  /\ ret[p].free_months_remaining = 0
                  /\ Committed = pre[p]
            /\ ( /\ prev.op = op[p] /\ ~Raised(prev.ret)
                 /\ rows # {}
                 /\ RowsByEmail(prev.pre, op[p].user_email) # {}
                 /\ BalanceOf(prev.pre, op[p].user_email) = 1 ) =>
                  /\ ~prev.ret.should_charge /\ prev.ret.free_months_remaining = 0
                  /\ ret[p].should_charge /\ ret[p].free_months_remaining = 0

\* scenario B: alice had balance 1, the first call used it, the second call charges
C6_Witness ==
    \E p \in Workers :
        /\ pc[p] = "done" /\ IsFreeMonth(p) /\ op[p].user_email = "alice"
        /\ prev.op = op[p]
        /\ ~prev.ret.should_charge
        /\ ret[p].should_charge /\ ret[p].charge_amount = 799
        /\ HistoryCount(Committed, "alice", "used") = 1

-----------------------------------------------------------------------------
(* The session layer: security.py and AuthManager's session methods *)

\* token = secrets.token_urlsafe(32): a value no stored session has
FreshToken == Cardinality(user_sessions) + 1

\* plan_type, subscription_status derived from users.payment_status
PlanOf(u) ==
    IF u.payment_status \in {"completed", "active", "paid", "lifetime"}
      THEN [plan_type |-> "lifetime", subscription_status |-> "active"]
      ELSE [plan_type |-> "none", subscription_status |-> "inactive"]

\* security._fetch_user_by_session: <<the user>> or <<>> for None
\*   SELECT u.id, u.is_active FROM user_sessions s JOIN users u ON u.id = s.user_id
\*   WHERE s.session_token = ? AND s.is_active = 1 AND s.expires_at > datetime('now')
FetchUserBySession(token) ==
    IF token = NoToken THEN <<>>
    ELSE LET hit == {<<r, u>> \in user_sessions \X users :
                        /\ r.session_token = token
                        /\ u.id = r.user_id
                        /\ r.is_active
                        /\ TextGreater(r.expires_at, Stamp(" ", now))}
         IN IF hit = {} THEN <<>>
            ELSE LET u == (CHOOSE h \in hit : TRUE)[2] IN
                 << [id |-> u.id, is_active |-> u.is_active,
                     plan_type |-> PlanOf(u).plan_type,
                     subscription_status |-> PlanOf(u).subscription_status] >>

\* security.require_user: 401 without a cookie, without a user or with an
\* inactive user; else the user
RequireUser(token) ==
    LET user == FetchUserBySession(token) IN
    IF token = NoToken \/ user = <<>> THEN [status |-> 401, user |-> NoUser]
    ELSE IF ~user[1].is_active THEN [status |-> 401, user |-> NoUser]
    ELSE [status |-> 200, user |-> user[1]]

\* validate_session without the u.is_active = 1 of its WHERE clause
ValidateSessionOfAnyUser(token) ==
    LET hit == {<<r, u>> \in user_sessions \X users :
                   /\ r.session_token = token
                   /\ u.id = r.user_id
                   /\ TextGreater(r.expires_at, Stamp("T", now))}
    IN IF hit = {} THEN <<>>
       ELSE LET u == (CHOOSE h \in hit : TRUE)[2] IN
            << [id |-> u.id, is_active |-> u.is_active, plan_type |-> "none",
                subscription_status |-> "none"] >>

\* AuthManager.validate_session: <<the user>> or <<>> for None
\*   SELECT ... FROM user_sessions s JOIN users u ON s.user_id = u.id
\*   WHERE s.session_token = ? AND s.expires_at > ? AND u.is_active = 1
\* with ? = datetime.now().isoformat()
ValidateSession(token) ==
    LET hit == {<<r, u>> \in user_sessions \X users :
                   /\ r.session_token = token
                   /\ u.id = r.user_id
                   /\ TextGreater(r.expires_at, Stamp("T", now))
                   /\ u.is_active}
    IN IF hit = {} THEN <<>>
       ELSE LET u == (CHOOSE h \in hit : TRUE)[2] IN
            << [id |-> u.id, is_active |-> u.is_active, plan_type |-> "none",
                subscription_status |-> "none"] >>

\* security.verify_csrf: the x-csrf-token header must equal the pp_csrf cookie
VerifyCsrf(header, cookie) ==
    IF header = Absent \/ cookie = Absent \/ header # cookie THEN 403 ELSE 200

\* the expiry both create_session functions compute: now + timedelta(days)
ExpiryOf(t) == t + SessionDays * DayLen

\* INSERT INTO user_sessions (user_id, session_token, expires_at, ..., is_active)
SessionRow(token, user_id, expires_at, active) ==
    [session_token |-> token, user_id |-> user_id, expires_at |-> expires_at,
     is_active |-> active]

Responded(endpoint, token, cookie, header, status, user) ==
    resp' = [endpoint |-> endpoint, token |-> token, cookie |-> cookie,
             header |-> header, status |-> status, user |-> user]

\* what a request can carry
TokenInputs == 0..MaxSessions
\* <<pp_csrf cookie, x-csrf-token header>>: the pair the browser sends, the
\* cookie without the header, a header that differs from the cookie, and a pair
\* the client made up itself
CsrfInputs(token) ==
    { <<IssuedCsrf(token), IssuedCsrf(token)>>, <<IssuedCsrf(token), Absent>>,
      <<IssuedCsrf(token), Forged>>, <<Forged, Forged>> }

\* the sessions' horizon: every stored session expires within the run
CanStore == Cardinality(user_sessions) < MaxSessions

\* security.create_session(user_id, ip, ua): stores the session with
\* expires_at = strftime("%Y-%m-%d %H:%M:%S") of utcnow + 30 days, is_active 1,
\* and returns (token, csrf, expires_at).
create_session(u) ==
    /\ CanStore
    /\ user_sessions' = user_sessions \cup
          {SessionRow(FreshToken, u, Stamp(" ", ExpiryOf(now)), TRUE)}
    /\ Responded("create_session", FreshToken, IssuedCsrf(FreshToken), Absent, 200, NoUser)
    /\ UNCHANGED <<users, login_attempts, login, now, advances>>
    /\ UNCHANGED ledgerVars
    /\ UNCHANGED credVars

\* AuthManager.create_session(user_id): stores the session with
\* expires_at = (datetime.now() + 30 days).isoformat(); is_active is left to
\* the column default 1.  The clock of datetime.now() is taken to be UTC.
AuthManager_create_session(u) ==
    /\ CanStore
    /\ user_sessions' = user_sessions \cup
          {SessionRow(FreshToken, u, Stamp("T", ExpiryOf(now)), TRUE)}
    /\ Responded("AuthManager.create_session", FreshToken, Absent, Absent, 200, NoUser)
    /\ UNCHANGED <<users, login_attempts, login, now, advances>>
    /\ UNCHANGED ledgerVars
    /\ UNCHANGED credVars

\* GET /settings and the other routes with Depends(require_user)
serve_settings(token) ==
    /\ Responded("settings", token, Absent, Absent, RequireUser(token).status,
                 RequireUser(token).user)
    /\ UNCHANGED <<users, user_sessions, login_attempts, login, now, advances>>
    /\ UNCHANGED ledgerVars
    /\ UNCHANGED credVars

\* check_session_validity(session_token) = auth_manager.validate_session
check_session_validity(token) ==
    /\ token # NoToken
    /\ LET v == ValidateSession(token) IN
         Responded("validate_session", token, Absent, Absent,
                   IF v = <<>> THEN 401 ELSE 200, IF v = <<>> THEN NoUser ELSE v[1])
    /\ UNCHANGED <<users, user_sessions, login_attempts, login, now, advances>>
    /\ UNCHANGED ledgerVars
    /\ UNCHANGED credVars

\* UPDATE user_sessions SET is_active=0 WHERE session_token = ?
Revoke(token) ==
    {IF r.session_token = token THEN [r EXCEPT !.is_active = FALSE] ELSE r
        : r \in user_sessions}

\* POST /api/logout: Depends(require_user), then the session row is made
\* inactive.  The route has no verify_csrf dependency.
api_logout(token, cookie, header) ==
    /\ LET auth == RequireUser(token) IN
         /\ Responded("logout", token, cookie, header, auth.status, auth.user)
         /\ user_sessions' = IF auth.status = 200 /\ token # NoToken
                               THEN Revoke(token) ELSE user_sessions
    /\ UNCHANGED <<users, login_attempts, login, now, advances>>
    /\ UNCHANGED ledgerVars
    /\ UNCHANGED credVars

\* POST /api/billing/set-default-pm (and /api/process-donation):
\* Depends(require_user), then Depends(verify_csrf)
set_default_pm(token, cookie, header) ==
    /\ LET auth == RequireUser(token) IN
         Responded("set_default_pm", token, cookie, header,
                   IF auth.status # 200 THEN auth.status ELSE VerifyCsrf(header, cookie),
                   auth.user)
    /\ UNCHANGED <<users, user_sessions, login_attempts, login, now, advances>>
    /\ UNCHANGED ledgerVars
    /\ UNCHANGED credVars

\* AuthManager.get_user_by_email on the rows of users: the first active row
\* whose decrypted e-mail, in lower case, equals email.lower().strip();
\* <<the row>> or <<>> for None
FindByEmailAnyStatus(rows, email) ==
    LET hit == {u \in rows : Plain(u.email) = StripEmail(LowerEmail(email))}
    IN IF hit = {} THEN <<>>
       ELSE << CHOOSE u \in hit : \A v \in hit : u.id <= v.id >>

FindByEmail(rows, email) ==
    LET hit == {u \in rows : u.is_active /\ Plain(u.email) = StripEmail(LowerEmail(email))}
    IN IF hit = {} THEN <<>>
       ELSE << CHOOSE u \in hit : \A v \in hit : u.id <= v.id >>

GetUserByEmail(email) == FindByEmail(users, email)

\* AuthManager.deactivate_user(email): the row get_user_by_email returns is
\* made inactive (UPDATE users SET is_active = 0 WHERE id = ?); the call
\* returns False and writes nothing if there is none.
deactivate_user(email) ==
    /\ GetUserByEmail(Plain(email)) # <<>>
    /\ users' = {IF u.id = GetUserByEmail(Plain(email))[1].id
                   THEN [u EXCEPT !.is_active = FALSE] ELSE u : u \in users}
    /\ resp' = NoResp
    /\ UNCHANGED <<user_sessions, login_attempts, login, now, advances>>
    /\ UNCHANGED ledgerVars
    /\ UNCHANGED credVars

\* Time passes: by one tick, or by one day less than a session's lifetime.
\* resp is the response to the request served in the last step.
Tick ==
    /\ advances < MaxAdvances
    /\ now' = now + 1
    /\ advances' = advances + 1
    /\ resp' = NoResp
    /\ UNCHANGED <<users, user_sessions, login_attempts, login>>
    /\ UNCHANGED ledgerVars
    /\ UNCHANGED credVars

SkipDays ==
    /\ advances < MaxAdvances
    /\ now' = now + (SessionDays - 1) * DayLen
    /\ advances' = advances + 1
    /\ resp' = NoResp
    /\ UNCHANGED <<users, user_sessions, login_attempts, login>>
    /\ UNCHANGED ledgerVars
    /\ UNCHANGED credVars

SessionNext ==
    \/ \E u \in UserIds : create_session(u)
    \/ \E u \in UserIds : AuthManager_create_session(u)
    \/ \E t \in TokenInputs : serve_settings(t)
    \/ \E t \in TokenInputs : check_session_validity(t)
    \/ \E t \in TokenInputs : \E ch \in CsrfInputs(t) : api_logout(t, ch[1], ch[2])
    \/ \E t \in TokenInputs : \E ch \in CsrfInputs(t) : set_default_pm(t, ch[1], ch[2])
    \/ \E e \in {"alice", "bob"} : deactivate_user(e)
    \/ Tick
    \/ SkipDays

SessionSpec == Init /\ [][SessionNext]_vars

-----------------------------------------------------------------------------
(* Properties of the session layer *)

\* the last step served a validation of a stored token: a route behind
\* require_user, or check_session_validity
Validated(r) ==
    /\ resp.endpoint \in {"settings", "validate_session"}
    /\ resp.token = r.session_token

OwnerActive(r) == \E u \in users : u.id = r.user_id /\ u.is_active

\* C7: a session of an active user is valid iff its active flag is set and the
\* current time is strictly before its expiry: on either validation path the
\* token is accepted at every time before the expiry and refused at and after
\* the expiry.
C7_ValidIffActiveAndUnexpired ==
    \A r \in user_sessions :
        Validated(r) /\ OwnerActive(r) =>
            (resp.status = 200 <=> r.is_active /\ now < Instant(r.expires_at))

\* C8: once a token is revoked by logout, every later validation of it, on the
\* security path and on AuthManager.validate_session, answers Unauthorized.
C8_RevokedStaysUnauthorized ==
    \A r \in user_sessions :
        Validated(r) /\ ~r.is_active => resp.status = 401

\* C9: a state-changing request is accepted only if the anti-forgery token it
\* presents is the one create_session issued together with its session; a
\* missing or a different token is rejected.
C9_CsrfMustBeTheIssuedOne ==
    resp.endpoint \in {"logout", "set_default_pm"} /\ resp.status = 200 =>
        /\ resp.token \in {r.session_token : r \in user_sessions}
        /\ resp.header = IssuedCsrf(resp.token)

-----------------------------------------------------------------------------
(* Login: AuthManager's credential check, authenticate_user_login and the
   POST /authenticate-user endpoint *)

\* rows a run of logins may add to login_attempts and to user_sessions
MaxLoginRows == 3

\* log_login_attempt: INSERT INTO login_attempts (email, license_key[:8] + "...", success)
AttemptRow(email, license_key, success) ==
    [email |-> email,
     license_key |-> SubSeq(license_key, 1, IF Len(license_key) < 8 THEN Len(license_key) ELSE 8)
                        \o <<".", ".", ".">>,
     success |-> success]

\* user['license_key'] != license_key.strip().upper(), negated
LicenseMatchesVerbatim(stored, license_key) == stored = license_key

LicenseMatches(stored, license_key) == stored = Upper(Strip(license_key))

\* the checks of validate_credentials on the rows of users, in their order
CredentialVerdict(rows, email, license_key) ==
    LET user == FindByEmail(rows, email)
        Rejected(error) == [valid |-> FALSE, error |-> error, user_id |-> 0,
                            license_key |-> <<>>]
    IN IF user = <<>> THEN Rejected("User not found")
       ELSE IF ~LicenseMatches(user[1].license_key, license_key)
         THEN Rejected("Invalid license key")
       ELSE IF user[1].payment_status # "completed" THEN Rejected("Payment not completed")
       ELSE [valid |-> TRUE, error |-> "none", user_id |-> user[1].id,
             license_key |-> user[1].license_key]

\* the rows one call of validate_credentials adds to login_attempts: the attempt
\* is logged as failed before the checks, and logged again as successful after
\* they passed
AttemptsLogged(email, license_key, valid) ==
    IF valid THEN << AttemptRow(email, license_key, FALSE), AttemptRow(email, license_key, TRUE) >>
    ELSE << AttemptRow(email, license_key, FALSE) >>

\* AuthManager.validate_credentials(email, license_key): the verdict and the
\* login_attempts table it leaves
ValidateCredentials(email, license_key) ==
    LET v == CredentialVerdict(users, email, license_key) IN
    [valid |-> v.valid, error |-> v.error, user_id |-> v.user_id,
     license_key |-> v.license_key,
     attempts |-> login_attempts \o AttemptsLogged(email, license_key, v.valid)]

\* AuthManager.authenticate_user(email, license_key) without a full name:
\* validate_credentials, then AuthManager.create_session for the user.
\* (update_last_login writes columns that are not part of the rows here.)
AuthManager_authenticate_user(email, license_key) ==
    LET v == ValidateCredentials(email, license_key) IN
    IF ~v.valid
      THEN [authenticated |-> FALSE, role |-> "none", token |-> NoToken, user_id |-> 0,
            attempts |-> v.attempts, sessions |-> user_sessions, read_store |-> TRUE]
      ELSE [authenticated |-> TRUE, role |-> "user", token |-> FreshToken,
            user_id |-> v.user_id, attempts |-> v.attempts,
            sessions |-> user_sessions \cup
                {SessionRow(FreshToken, v.user_id, Stamp("T", ExpiryOf(now)), TRUE)},
            read_store |-> TRUE]

\* req_key = license_key.strip().upper().replace(" ", "")
LoginKey(license_key) == Remove(Upper(Strip(license_key)), " ")

\* email_ok and (key_eq or key_nh) in authenticate_user_login
IsAdminLogin(email, license_key) ==
    /\ LowerEmail(StripEmail(email)) = Plain(ADMIN_EMAIL)
    /\ \/ LoginKey(license_key) = LoginKey(ADMIN_LICENSE_KEY)
       \/ Remove(LoginKey(license_key), "-") = Remove(LoginKey(ADMIN_LICENSE_KEY), "-")

\* auth_manager.authenticate_user_login(email, license_key): the administrator
\* of the environment gets a token that is stored nowhere and the role "admin"
\* without any access to the database; everybody else goes through
\* AuthManager.authenticate_user.
AuthenticateUserLogin(email, license_key) ==
    IF IsAdminLogin(email, license_key)
      THEN [authenticated |-> TRUE, role |-> "admin", token |-> FreshToken, user_id |-> 0,
            attempts |-> login_attempts, sessions |-> user_sessions, read_store |-> FALSE]
      ELSE AuthManager_authenticate_user(email, license_key)

\* _norm in authenticate_user_ep: the alphanumeric characters of s.strip().upper()
Norm(s) == SelectSeq(Upper(Strip(s)), IsAlnum)

\* AuthManager.create_user(email, full_name) for the administrator's e-mail:
\* generate_license_key returns ADMIN_LICENSE_KEY, and the INSERT fails on the
\* UNIQUE license_key if a row holds that key already.  <<the new row>> or <<>>.
CreateAdminUser(full_name) ==
    IF \E u \in users : u.license_key = ADMIN_LICENSE_KEY THEN <<>>
    ELSE << UserRow(1 + Cardinality(users), ADMIN_EMAIL, full_name,
                    ADMIN_LICENSE_KEY, "completed", TRUE) >>

\* step 4 of ensure_admin_user_id: UPDATE users SET license_key = ? WHERE id = ?,
\* skipped if the UNIQUE license_key refuses it
SyncLicenseKey(rows, user_id, license_key) ==
    IF \E u \in rows : u.id # user_id /\ u.license_key = license_key THEN rows
    ELSE {IF u.id = user_id THEN [u EXCEPT !.license_key = license_key] ELSE u : u \in rows}

\* main.ensure_admin_user_id(email, full_name, license_key): the id of the
\* administrator's users row, found by e-mail, else by license key, else
\* created; the row's license_key is then set to the key of the request.
\* user_id 0 stands for the RuntimeError.
EnsureAdminUserId(email, full_name, license_key) ==
    LET by_email == GetUserByEmail(email)
        by_key == {u \in users : u.license_key = license_key}
        created == CreateAdminUser(full_name)
    IN IF by_email # <<>>
         THEN [user_id |-> by_email[1].id,
               users |-> SyncLicenseKey(users, by_email[1].id, license_key)]
       ELSE IF by_key # {}
         THEN [user_id |-> (CHOOSE u \in by_key : TRUE).id, users |-> users]
       ELSE IF created # <<>>
         THEN [user_id |-> created[1].id,
               users |-> SyncLicenseKey(users \cup {created[1]}, created[1].id, license_key)]
       ELSE [user_id |-> 0, users |-> users]

\* what a login form can send
EmailInputs == {Plain(ADMIN_EMAIL), EmailText(ADMIN_EMAIL, TRUE, TRUE), Plain("alice")}

LicenseInputs ==
    { ADMIN_LICENSE_KEY,               \* the configured key
      <<"A", "D", "1">>,               \* without the hyphen
      <<"a", "d", "-", "1">>,          \* in lower case
      <<" ", "A", "D", " ", "-", "1">>,\* with blanks
      <<"A", "D", "-", "2">>,          \* another key
      Str("P", "P", "-", "1"),         \* alice's key
      <<" ">> }                        \* nothing but a blank

CanLogin ==
    /\ Len(login_attempts) + 2 <= MaxLoginRows
    /\ Cardinality(user_sessions) + 2 <= MaxLoginRows

LoggedIn(path, email, license_key, status, authenticated, role, token, user_id, read_store) ==
    login' = [path |-> path, email |-> email, license_key |-> license_key,
              status |-> status, authenticated |-> authenticated, role |-> role,
              token |-> token, user_id |-> user_id,
              stored |-> token \in {r.session_token : r \in user_sessions'},
              read_store |-> read_store, wrote_store |-> users' # users]

\* a direct call of authenticate_user_login
authenticate_user_login(email, license_key) ==
    /\ CanLogin
    /\ LET auth == AuthenticateUserLogin(email, license_key) IN
         /\ login_attempts' = auth.attempts
         /\ user_sessions' = auth.sessions
         /\ users' = users
         /\ LoggedIn("authenticate_user_login", email, license_key,
                     IF auth.authenticated THEN 200 ELSE 401, auth.authenticated,
                     auth.role, auth.token, auth.user_id, auth.read_store)
    /\ UNCHANGED <<now, advances, resp>>
    /\ UNCHANGED ledgerVars
    /\ UNCHANGED credVars

\* POST /authenticate-user with a body {email, license_key}.
\*   - 400 if the stripped e-mail or the stripped license key is empty;
\*   - the administrator's e-mail: 401 unless the key matches under _norm, then
\*     ensure_admin_user_id (500 if it raises), then security.create_session
\*     for that users row;
\*   - any other e-mail: authenticate_user_login, 401 unless authenticated,
\*     then security.create_session for the user (a second session row).
\* The JSON answer carries no role, and the user a stored session resolves to
\* carries none either.
authenticate_user_ep(email_typed, license_key_typed) ==
    /\ CanLogin
    /\ LET email == LowerEmail(StripEmail(email_typed))
           license_key == Strip(license_key_typed)
           admin == EnsureAdminUserId(email, ADMIN_FULL_NAME, license_key)
           auth == AuthenticateUserLogin(email, license_key)
           Answer(status, token, user_id, read_store) ==
               LoggedIn("authenticate_user_ep", email_typed, license_key_typed,
                        status, status = 200, "none", token, user_id, read_store)
       IN
       IF email.name = "" \/ license_key = <<>>
         THEN /\ UNCHANGED <<users, user_sessions, login_attempts>>
              /\ Answer(400, NoToken, 0, FALSE)
       ELSE IF ADMIN_EMAIL # "" /\ email = Plain(ADMIN_EMAIL)
         THEN IF Norm(license_key) # Norm(ADMIN_LICENSE_KEY)
                THEN /\ UNCHANGED <<users, user_sessions, login_attempts>>
                     /\ Answer(401, NoToken, 0, FALSE)
              ELSE IF admin.user_id = 0
                THEN /\ UNCHANGED <<users, user_sessions, login_attempts>>
                     /\ Answer(500, NoToken, 0, TRUE)
              ELSE /\ users' = admin.users
                   /\ user_sessions' = user_sessions \cup
                         {SessionRow(FreshToken, admin.user_id,
                                     Stamp(" ", ExpiryOf(now)), TRUE)}
                   /\ UNCHANGED login_attempts
                   /\ Answer(200, FreshToken, admin.user_id, TRUE)
       ELSE IF ~auth.authenticated
         THEN /\ users' = users
              /\ user_sessions' = auth.sessions
              /\ login_attempts' = auth.attempts
              /\ Answer(401, NoToken, 0, auth.read_store)
       ELSE /\ users' = users
            /\ user_sessions' = auth.sessions \cup
                  {SessionRow(1 + Cardinality(auth.sessions), auth.user_id,
                              Stamp(" ", ExpiryOf(now)), TRUE)}
            /\ login_attempts' = auth.attempts
            /\ Answer(200, 1 + Cardinality(auth.sessions), auth.user_id, auth.read_store)
    /\ UNCHANGED <<now, advances, resp>>
    /\ UNCHANGED ledgerVars
    /\ UNCHANGED credVars

AdminNext ==
    \/ \E e \in EmailInputs, k \in LicenseInputs : authenticate_user_login(e, k)
    \/ \E e \in EmailInputs, k \in LicenseInputs : authenticate_user_ep(e, k)
    \/ \E e \in {ADMIN_EMAIL, "alice"} : deactivate_user(e)

AdminSpec == Init /\ [][AdminNext]_vars

\* the last login presented the administrator's e-mail and the configured
\* license as it is, without its hyphens or without blanks
AdminLicenseForms ==
    {ADMIN_LICENSE_KEY, Remove(ADMIN_LICENSE_KEY, "-"), Remove(ADMIN_LICENSE_KEY, " ")}

AdminPresented ==
    /\ login.path # "none"
    /\ login.email = Plain(ADMIN_EMAIL)
    /\ login.license_key \in AdminLicenseForms

\* C10: a login with the administrator's e-mail and the configured license, with
\* or without its hyphens and blanks, succeeds and yields an admin session,
\* and it neither reads nor writes a row of the users table.
C10_AdminBypassesTheStore ==
    AdminPresented =>
        /\ login.authenticated
        /\ login.role = "admin"
        /\ ~login.read_store
        /\ ~login.wrote_store

-----------------------------------------------------------------------------
(* The credential store and its validator, called one call at a time *)

\* rows in login_attempts after which no further credential check is started
MaxAttempts == 2

\* A row of users whose payment_status is not 'completed'.  No statement of
\* the repository writes such a value (create_user always stores
\* 'completed'); the row stands for one edited in the database by hand.
PendingUser == UserRow(3, "dave", "Dave", Str("P", "P", "-", "3"), "pending", TRUE)

CredInit == LedgerStart /\ AuthStartWith(RegisteredUsers \cup {PendingUser})

\* what a caller can ask about: a registered user, the same address typed in
\* capitals with blanks around it, an unknown address, the unpaid user
CredEmails ==
    {Plain("alice"), EmailText("alice", TRUE, TRUE), Plain("carol"), Plain("dave")}

CredKeys ==
    { Str("P", "P", "-", "1"),               \* alice's key
      <<" ", "p", "p", "-", "1">>,           \* the same in lower case after a blank
      Str("P", "P", "-", "3") }              \* dave's key

CredCalled(call, email, license_key, status, valid, error, found, returned_key, logged) ==
    cred' = [call |-> call, email |-> email, license_key |-> license_key,
             status |-> status, valid |-> valid, error |-> error, found |-> found,
             returned_key |-> returned_key, logged |-> logged]

\* validate_user_credentials(email, license_key) = AuthManager.validate_credentials
validate_credentials(email, license_key) ==
    /\ Len(login_attempts) < MaxAttempts
    /\ LET v == ValidateCredentials(email, license_key) IN
         /\ login_attempts' = v.attempts
         /\ CredCalled("validate_credentials", email, license_key, 0, v.valid, v.error,
                       GetUserByEmail(email), v.license_key,
                       SubSeq(v.attempts, Len(login_attempts) + 1, Len(v.attempts)))
    /\ UNCHANGED <<users, user_sessions, now, advances, resp, login, creating>>
    /\ UNCHANGED ledgerVars
    /\ UNCHANGED <<issueVars, gateVars, env, hook>>

\* AuthManager.get_user_by_email(email), as its callers see it
get_user_by_email(email) ==
    /\ CredCalled("get_user_by_email", email, <<>>, 0, GetUserByEmail(email) # <<>>, "none",
                  GetUserByEmail(email), <<>>, <<>>)
    /\ UNCHANGED <<users, user_sessions, login_attempts, now, advances, resp, login, creating>>
    /\ UNCHANGED ledgerVars
    /\ UNCHANGED <<issueVars, gateVars, env, hook>>

\* _norm_key in check_credentials: the characters A-Z and 0-9 of s.upper()
NormKey(s) == SelectSeq(Upper(s), IsAlnum)

\* re.fullmatch('PP-XXXX-XXXX-XXXX', key.upper()), at the length keys have here:
\* "PP-" and one character A-Z or 0-9
HasLicenseFormat(key) ==
    /\ Len(key) = 4
    /\ SubSeq(Upper(key), 1, 3) = <<"P", "P", "-">>
    /\ IsAlnum(Upper(key)[4])

\* POST /validate-credentials with a body {email, license_key}: status and
\* error message of the answer.
\*   - 400 if the stripped e-mail or the stripped license key is empty;
\*   - the administrator's e-mail: 401 "User not found" unless the key matches
\*     under _norm_key, else 200;
\*   - 400 if the key has not the format of a license;
\*   - else validate_user_credentials: 200 if valid, else 401 with its error.
check_credentials(email_typed, license_key_typed) ==
    /\ Len(login_attempts) < MaxAttempts
    /\ LET email_raw == StripEmail(email_typed)
           license_key_raw == Strip(license_key_typed)
           email == LowerEmail(email_raw)
           v == ValidateCredentials(email_raw, license_key_raw)
           Answer(status, valid, error, logged) ==
               CredCalled("check_credentials", email_typed, license_key_typed, status,
                          valid, error, GetUserByEmail(email_raw), <<>>, logged)
       IN
       IF email_raw.name = "" \/ license_key_raw = <<>>
         THEN /\ Answer(400, FALSE, "Email and license key required", <<>>)
              /\ UNCHANGED login_attempts
       ELSE IF email = Plain(ADMIN_EMAIL)
         THEN /\ IF NormKey(license_key_raw) # NormKey(ADMIN_LICENSE_KEY)
                   THEN Answer(401, FALSE, "User not found", <<>>)
                   ELSE Answer(200, TRUE, "none", <<>>)
              /\ UNCHANGED login_attempts
       ELSE IF ~HasLicenseFormat(license_key_raw)
         THEN /\ Answer(400, FALSE, "Invalid license key format", <<>>)
              /\ UNCHANGED login_attempts
       ELSE /\ login_attempts' = v.attempts
            /\ Answer(IF v.valid THEN 200 ELSE 401, v.valid, v.error,
                      SubSeq(v.attempts, Len(login_attempts) + 1, Len(v.attempts)))
    /\ UNCHANGED <<users, user_sessions, now, advances, resp, login, creating>>
    /\ UNCHANGED ledgerVars
    /\ UNCHANGED <<issueVars, gateVars, env, hook>>

\* the bodies POST /validate-credentials is sent
CheckEmails == CredEmails \cup {Plain(ADMIN_EMAIL)}

CheckKeys == CredKeys \cup {ADMIN_LICENSE_KEY, <<"P", "P", "1">>, <<" ">>}

CredNext ==
    \/ \E e \in CredEmails, k \in CredKeys : validate_credentials(e, k)
    \/ \E e \in CheckEmails, k \in CheckKeys : check_credentials(e, k)
    \/ \E e \in CredEmails : get_user_by_email(e)
    \/ \E e \in {"alice", "dave"} : deactivate_user(e)

CredSpec == CredInit /\ [][CredNext]_vars

-----------------------------------------------------------------------------
(* Properties of the credential store *)

\* The last call was validate_credentials and it answered as the checks in
\* their order demand, the supplied license being compared as Normal(license).
ValidatorAnswersInOrder(Normal(_)) ==
    cred.call = "validate_credentials" =>
        IF cred.found = <<>>
          THEN ~cred.valid /\ cred.error = "User not found"
        ELSE IF cred.found[1].license_key # Normal(cred.license_key)
          THEN ~cred.valid /\ cred.error = "Invalid license key"
        ELSE IF cred.found[1].payment_status # "completed"
          THEN ~cred.valid /\ cred.error = "Payment not completed"
        ELSE /\ cred.valid
             /\ cred.returned_key = Normal(cred.license_key)

\* C11 as stated: validate_credentials answers NotFound, InvalidLicense,
\* PaymentIncomplete in this order and succeeds otherwise, the supplied license
\* being compared in upper case; an accepted pair returns the claimed license
\* in upper case.
C11_ValidatorOrderCaseOnly == ValidatorAnswersInOrder(Upper)

\* C11, amended: the same order of checks, the supplied license being compared
\* after its surrounding white space is removed and it is put in upper case; an
\* accepted pair returns the claimed license in that form.
C11_ValidatorOrder == ValidatorAnswersInOrder(LAMBDA k : Upper(Strip(k)))

\* a license typed in lower case after a blank was accepted
C11_Witness ==
    /\ cred.call = "validate_credentials"
    /\ cred.valid
    /\ cred.license_key # cred.returned_key

\* the last call was a credential check for a known e-mail with a license that
\* is not the stored one, and it got as far as the validator
KnownEmailWrongLicense ==
    /\ cred.call \in {"validate_credentials", "check_credentials"}
    /\ cred.logged # <<>>
    /\ cred.found # <<>>
    /\ cred.found[1].license_key # Upper(Strip(cred.license_key))

\* C12: the rejection of a known e-mail with a wrong license is the rejection
\* the same call gets when no identity with that e-mail exists: the same
\* verdict and the same message.
C12_RejectionsIndistinguishable ==
    KnownEmailWrongLicense =>
        LET unknown == CredentialVerdict({}, StripEmail(cred.email), Strip(cred.license_key))
        IN /\ cred.valid = unknown.valid
           /\ cred.error = unknown.error

\* C13: every call of validate_credentials leaves one row in login_attempts,
\* and the row's success flag is the outcome of the call.
C13_OneAttemptRowPerCall ==
    cred.call = "validate_credentials" =>
        /\ Len(cred.logged) = 1
        /\ cred.logged[1].success = cred.valid

-----------------------------------------------------------------------------
(* create_user, called by request workers over one database file *)

\* rows of users beyond which no create_user call is started
MaxUsers == 4

\* The outcomes of the hash that are followed up: two keys no row holds and
\* the key alice holds.
LicenseDraws ==
    { Str("P", "P", "-", "1"), Str("P", "P", "-", "3"), Str("P", "P", "-", "4") }

\* generate_license_key(email, full_name): ADMIN_LICENSE_KEY for the
\* administrator's e-mail (email.lower().strip() == admin_email.lower()); else
\* "PP-" and characters of a SHA-256 hash over e-mail, name, time and
\* secrets.token_hex(16).  The users table is not consulted.
GenerateLicenseKey(email) ==
    IF StripEmail(LowerEmail(email)) = Plain(ADMIN_EMAIL) THEN {ADMIN_LICENSE_KEY}
    ELSE LicenseDraws

\* create_user, first part: existing_user = self.get_user_by_email(email);
\* with a user found the call returns "User already exists" and writes nothing.
CreateUser_Check(p, email, full_name) ==
    /\ creating[p].phase = "idle"
    /\ Cardinality(users) < MaxUsers
    /\ LET existing == GetUserByEmail(email) IN
         IF existing # <<>>
           THEN /\ CredCalled("create_user", email, <<>>, 0, FALSE, "User already exists",
                              existing, existing[1].license_key, <<>>)
                /\ UNCHANGED creating
           ELSE /\ creating' = [creating EXCEPT ![p] =
                                   [phase |-> "checked", email |-> email,
                                    full_name |-> full_name]]
                /\ UNCHANGED cred
    /\ UNCHANGED <<users, user_sessions, login_attempts, now, advances, resp, login>>
    /\ UNCHANGED ledgerVars
    /\ UNCHANGED <<issueVars, gateVars, env, hook>>

\* create_user, second part: the license key is generated, the row is
\* inserted with encrypt_data(email.lower().strip()) and payment_status
\* 'completed', and committed.  (Fernet encryption is randomized, so the UNIQUE
\* on encrypted_email never refuses a second row for the same address.)  If a
\* row holds the key already the INSERT raises on UNIQUE(license_key) and the
\* call returns "Failed to create user: ..." with nothing stored.
CreateUser_Insert(p) ==
    /\ creating[p].phase = "checked"
    /\ \E license_key \in GenerateLicenseKey(creating[p].email) :
          IF \E u \in users : u.license_key = license_key
            THEN /\ CredCalled("create_user", creating[p].email, <<>>, 0, FALSE,
                               "Failed to create user", <<>>, <<>>, <<>>)
                 /\ UNCHANGED users
            ELSE /\ users' = users \cup
                       {UserRow(1 + Cardinality(users), creating[p].email.name,
                                creating[p].full_name, license_key, "completed", TRUE)}
                 /\ CredCalled("create_user", creating[p].email, <<>>, 0, TRUE, "none",
                               <<>>, license_key, <<>>)
    /\ creating' = [creating EXCEPT ![p] = NotCreating]
    /\ UNCHANGED <<user_sessions, login_attempts, now, advances, resp, login>>
    /\ UNCHANGED ledgerVars
    /\ UNCHANGED <<issueVars, gateVars, env, hook>>

\* the e-mail addresses create_user is called with
CreateEmails ==
    { Plain("alice"), Plain("carol"), EmailText("carol", TRUE, TRUE),
      EmailText(ADMIN_EMAIL, TRUE, TRUE) }

CreateNext ==
    \/ \E p \in Workers, e \in CreateEmails : CreateUser_Check(p, e, "New")
    \/ \E p \in Workers : CreateUser_Insert(p)
    \/ \E e \in {"alice", "carol", ADMIN_EMAIL} : deactivate_user(e)
    \/ \E e \in CreateEmails : get_user_by_email(e)

CreateSpec == Init /\ [][CreateNext]_vars

\* create_user calls one at a time
SerialCreateNext ==
    \/ \E e \in CreateEmails : CreateUser_Check(SerialWorker, e, "New")
    \/ CreateUser_Insert(SerialWorker)
    \/ \E e \in {"alice", "carol", ADMIN_EMAIL} : deactivate_user(e)
    \/ \E e \in CreateEmails : get_user_by_email(e)

SerialCreateSpec == Init /\ [][SerialCreateNext]_vars

\* C14: there is at most one active identity per normalized e-mail, and a
\* create_user call that finds an active identity with its e-mail returns
\* "User already exists" and writes nothing, also when create_user calls for
\* one e-mail run concurrently.
C14_OneActiveIdentityPerEmail ==
    /\ \A u, v \in users :
          u.is_active /\ v.is_active /\ u.email = v.email => u = v
    /\ cred.call = "create_user" /\ cred.found # <<>> =>
          ~cred.valid /\ cred.error = "User already exists"

\* C15: get_user_by_email returns a row only if that row is active and its
\* decrypted e-mail is the normalized query; after any sequence of create_user
\* and deactivate_user calls it never returns a deactivated identity.
C15_FindByEmailOnlyActive ==
    cred.call = "get_user_by_email" /\ cred.found # <<>> =>
        /\ cred.found[1].is_active
        /\ Plain(cred.found[1].email) = LowerEmail(StripEmail(cred.email))

\* an identity was deactivated and created again, and the lookup returned the
\* new, active row
C15_Witness ==
    /\ cred.call = "get_user_by_email"
    /\ cred.found # <<>>
    /\ \E u \in users : /\ ~u.is_active
                        /\ u.email = cred.found[1].email
                        /\ u.id < cred.found[1].id


-----------------------------------------------------------------------------
(* Issuing referral codes: ReferralManager.create_referral_for_user,
   generate_unique_referral_code and _generate_fallback_code *)

\* calls of create_referral_for_user in one run
MaxIssues == 3

\* max_attempts = 100 in generate_unique_referral_code
max_attempts == 100

\* the number of characters random.sample / random.choices are asked for, and
\* the number of digits ([-5:], range(5))
SegmentLen == 5

\* string.ascii_lowercase, string.ascii_uppercase and the decimal digits
ascii_lowercase ==
    <<"a", "b", "c", "d", "e", "f", "g", "h", "i", "j", "k", "l", "m",
      "n", "o", "p", "q", "r", "s", "t", "u", "v", "w", "x", "y", "z">>

ascii_uppercase ==
    <<"A", "B", "C", "D", "E", "F", "G", "H", "I", "J", "K", "L", "M",
      "N", "O", "P", "Q", "R", "S", "T", "U", "V", "W", "X", "Y", "Z">>

DigitChars == <<"0", "1", "2", "3", "4", "5", "6", "7", "8", "9">>

\* the characters of a sequence, as a set
Chars(s) == {s[i] : i \in 1..Len(s)}

\* letter.upper() on a lower-case letter, and the lower-case form of an
\* upper-case letter
LetterUpper(c) == ascii_uppercase[CHOOSE i \in 1..26 : ascii_lowercase[i] = c]
LetterLower(c) == ascii_lowercase[CHOOSE i \in 1..26 : ascii_uppercase[i] = c]

\* The outcomes of the random generator that are followed up.
\* random.sample(population, 5): five different positions of the population
SampleDraws == {<<1, 2, 3, 4, 5>>, <<3, 4, 5, 6, 7>>}
\* random.choices(population, k=5): five positions, the same one possibly twice
ChoiceDraws == {<<1, 2, 3, 4, 5>>, <<6, 7, 8, 9, 10>>, <<1, 1, 2, 3, 4>>}
\* [random.randint(0, 9) for _ in range(5)]
DigitDraws == {<<0, 0, 0, 0, 0>>, <<1, 2, 3, 4, 5>>}
\* int(datetime.now().timestamp()): seconds since 1970 at the call
Epochs == {1762300000, 1762312345}

\* the characters of population at the drawn positions
Drawn(population, draw) == [i \in 1..SegmentLen |-> population[draw[i]]]

\* str(n) for n >= 0
RECURSIVE DecimalStr(_)
DecimalStr(n) ==
    IF n < 10 THEN <<DigitChars[n + 1]>>
    ELSE Append(DecimalStr(n \div 10), DigitChars[(n % 10) + 1])

\* s[-5:]
LastChars(s) ==
    IF Len(s) <= SegmentLen THEN s ELSE SubSeq(s, Len(s) - SegmentLen + 1, Len(s))

\* One pass of the loop of generate_unique_referral_code: five lower-case
\* letters are drawn, five of the remaining letters are drawn and put in upper
\* case, five digits are drawn; <<the code>>, or <<>> if fewer than five
\* letters remain.
AttemptCode(lower_draw, upper_draw, digit_draw) ==
    LET selected_letters  == Drawn(ascii_lowercase, lower_draw)
        remaining_letters == SelectSeq(ascii_lowercase,
                                       LAMBDA c : c \notin Chars(selected_letters))
        digits == [i \in 1..SegmentLen |-> DigitChars[digit_draw[i] + 1]]
    IN IF Len(remaining_letters) < SegmentLen THEN <<>>
       ELSE LET uppercase_letters ==
                    [i \in 1..SegmentLen |->
                        LetterUpper(Drawn(remaining_letters, upper_draw)[i])]
            IN << uppercase_letters \o digits \o selected_letters >>

AttemptCodes ==
    {AttemptCode(l, u, d) : l \in SampleDraws, u \in SampleDraws, d \in DigitDraws}

\* _generate_fallback_code: five upper-case letters chosen independently, the
\* last five digits of the clock, five lower-case letters chosen independently
FallbackCode(epoch, upper_draw, lower_draw) ==
    Drawn(ascii_uppercase, upper_draw) \o LastChars(DecimalStr(epoch))
        \o Drawn(ascii_lowercase, lower_draw)

FallbackCodes ==
    {FallbackCode(t, u, l) : t \in Epochs, u \in ChoiceDraws, l \in ChoiceDraws}

\* the codes of the rows of referrals (referral_code_exists looks here)
StoredCodes(rows) == {r.referral_code : r \in rows}

\* generate_unique_referral_code on the rows of referrals: the codes it can
\* return.  Pass k of the loop (k = 1..max_attempts) is reached if every pass
\* before it drew a code for which referral_code_exists (or drew none); a pass
\* returns its code if the code is not stored; when all passes are used up the
\* fallback code is returned as it is, unchecked.
GenerateUniqueReferralCode(rows) ==
    LET unused == {a[1] : a \in {t \in AttemptCodes : t # <<>> /\ t[1] \notin StoredCodes(rows)}}
        retry  == \E a \in AttemptCodes : a = <<>> \/ a[1] \in StoredCodes(rows)
        Reached(k) == k = 1 \/ (k > 1 /\ retry)
    IN {c \in unused : \E k \in 1..max_attempts : Reached(k)}
       \cup (IF Reached(max_attempts + 1) THEN FallbackCodes ELSE {})

\* get_user_referral_info: SELECT ... FROM referrals WHERE user_email = ?
NoReferralInfo(rows, user_email) == {}

GetUserReferralInfo(rows, user_email) == {r \in rows : r.user_email = user_email}

\* The record create_referral_for_user has stored for alice.
IssuedCode == AttemptCode(<<1, 2, 3, 4, 5>>, <<1, 2, 3, 4, 5>>, <<1, 2, 3, 4, 5>>)[1]

IssueInit ==
    /\ LedgerStartWith({ReferralRow("alice", IssuedCode, 0, 0, 0)})
    /\ AuthStart

\* the e-mail addresses create_referral_for_user is called with
IssueEmails == {"alice", "bob"}

\* a call that returned: its argument, its answer, the number of calls that had
\* returned when it began, and the rows of referrals for its e-mail afterwards
IssuedCall(user_email, referral_code, message, begun, rows) ==
    [user_email |-> user_email, success |-> TRUE, referral_code |-> referral_code,
     message |-> message, begun |-> begun,
     records |-> Cardinality({r \in rows : r.user_email = user_email})]

IssuesBegun == Len(issued) + Cardinality({p \in Workers : issuing[p].phase # "idle"})

\* create_referral_for_user, first part: the existing record is looked up and
\* returned if there is one; otherwise a code is generated.
Issue_Generate(p, user_email) ==
    /\ issuing[p].phase = "idle"
    /\ IssuesBegun < MaxIssues
    /\ LET existing == GetUserReferralInfo(referrals, user_email) IN
         IF existing # {}
           THEN /\ issued' = Append(issued,
                        IssuedCall(user_email, (CHOOSE r \in existing : TRUE).referral_code,
                                   "Referral code already exists", Len(issued), referrals))
                /\ UNCHANGED issuing
           ELSE /\ \E referral_code \in GenerateUniqueReferralCode(referrals) :
                      issuing' = [issuing EXCEPT ![p] =
                                     [phase |-> "generated", user_email |-> user_email,
                                      referral_code |-> referral_code,
                                      begun |-> Len(issued)]]
                /\ UNCHANGED issued
    /\ UNCHANGED <<referrals, referral_uses, free_months_history, writer, txn,
                   pc, op, loc, ret, pre, prev, calls>>
    /\ UNCHANGED <<users, user_sessions, login_attempts, now, advances, resp, login,
                   creating, cred, gate, env, hook>>

\* INSERT OR REPLACE INTO referrals: the rows that have the new row's
\* user_email or its referral_code (both UNIQUE) are deleted, the row is
\* inserted
InsertOrReplace(rows, row) ==
    {r \in rows : r.user_email # row.user_email /\ r.referral_code # row.referral_code}
        \cup {row}

\* create_referral_for_user, second part: the record is stored with zero
\* balance and counters, committed, and the code is returned.
Issue_Insert(p) ==
    /\ issuing[p].phase = "generated"
    /\ referrals' = InsertOrReplace(referrals,
                        ReferralRow(issuing[p].user_email, issuing[p].referral_code, 0, 0, 0))
    /\ issued' = Append(issued,
                    IssuedCall(issuing[p].user_email, issuing[p].referral_code,
                               "Referral code created successfully", issuing[p].begun,
                               referrals'))
    /\ issuing' = [issuing EXCEPT ![p] = NotIssuing]
    /\ UNCHANGED <<referral_uses, free_months_history, writer, txn,
                   pc, op, loc, ret, pre, prev, calls>>
    /\ UNCHANGED <<users, user_sessions, login_attempts, now, advances, resp, login,
                   creating, cred, gate, env, hook>>

IssueNext ==
    \/ \E p \in Workers, user_email \in IssueEmails : Issue_Generate(p, user_email)
    \/ \E p \in Workers : Issue_Insert(p)

IssueSpec == IssueInit /\ [][IssueNext]_vars

-----------------------------------------------------------------------------
(* Properties of issuing *)

\* Calls i and i + 1 of the calls that returned were made in sequence for the
\* same e-mail: the second began after the first had returned.
InSequence(i) ==
    /\ i + 1 <= Len(issued)
    /\ issued[i].user_email = issued[i + 1].user_email
    /\ issued[i + 1].begun >= i

UpperSegment(code) == SubSeq(code, 1, SegmentLen)
DigitSegment(code) == SubSeq(code, SegmentLen + 1, 2 * SegmentLen)
LowerSegment(code) == SubSeq(code, 2 * SegmentLen + 1, Len(code))

\* five upper-case letters, five digits, five lower-case letters, and no letter
\* that is in the first and, in lower case, in the last segment
WellFormedCode(code) ==
    /\ Len(code) = 3 * SegmentLen
    /\ Chars(UpperSegment(code)) \subseteq Chars(ascii_uppercase)
    /\ Chars(DigitSegment(code)) \subseteq Chars(DigitChars)
    /\ Chars(LowerSegment(code)) \subseteq Chars(ascii_lowercase)
    /\ \A c \in Chars(UpperSegment(code)) : LetterLower(c) \notin Chars(LowerSegment(code))

\* the codes generate_unique_referral_code has returned to a call that has not
\* stored its record yet
GeneratedCodes == {issuing[p].referral_code : p \in {q \in Workers : issuing[q].phase = "generated"}}

\* C17: every code generate_unique_referral_code returns, the timestamp
\* fallback included, is five upper-case letters, five digits and five
\* lower-case letters, with no letter in both the upper-case and the lower-case
\* segment.
C17_CodesAreWellFormed ==
    \A code \in GeneratedCodes \cup StoredCodes(referrals) : WellFormedCode(code)

\* C18: referral codes are unique over all records; the generator, the
\* fallback included, never returns a code that is stored, and issuing a code
\* never overwrites or removes the record of another identity.
C18_IssuingKeepsOtherRecords ==
    [][ /\ \A p \in Workers :
             issuing[p].phase = "idle" /\ issuing'[p].phase = "generated"
                 => issuing'[p].referral_code \notin StoredCodes(referrals)
        /\ \A r \in referrals :
             \/ r \in referrals'
             \/ \E p \in Workers : /\ issuing[p].phase = "generated"
                                   /\ issuing'[p].phase = "idle"
                                   /\ issuing[p].user_email = r.user_email
        /\ \A r1, r2 \in referrals' : r1.referral_code = r2.referral_code => r1 = r2
      ]_vars

-----------------------------------------------------------------------------
(* The guarded routes: security.require_user and security.require_plan over
   _fetch_user_by_session, with the failures of the database.
   (In security.py the def of _fetch_user_by_session stands indented under
   set_session_cookies; it is taken as the module-level function that
   require_user and main.py call.  Left as it stands, the call in require_user
   raises NameError, which is the outcome "Exception" below.) *)

\* what can befall the statements of _fetch_user_by_session:
\*   "OperationalError"       the session SELECT raises sqlite3.OperationalError
\*   "Exception"              it raises any other exception
\*   "plan OperationalError"  the session SELECT succeeds and the read of
\*                            users.payment_status raises sqlite3.OperationalError
Faults == {"none", "OperationalError", "Exception", "plan OperationalError"}

\* _fetch_user_by_session(token) under a fault: what it returns (<<the user>>
\* or <<>> for None), or that it raised
FetchUserBySessionUnder(token, fault) ==
    IF token = NoToken THEN [raised |-> FALSE, user |-> <<>>]
    ELSE IF fault = "Exception" THEN [raised |-> TRUE, user |-> <<>>]
    ELSE IF fault = "OperationalError" THEN [raised |-> FALSE, user |-> <<>>]
    ELSE LET found == FetchUserBySession(token) IN
         IF found = <<>> THEN [raised |-> FALSE, user |-> <<>>]
         ELSE IF fault = "plan OperationalError"
           THEN [raised |-> FALSE,
                 user |-> << [found[1] EXCEPT !.plan_type = "none",
                                              !.subscription_status = "none"] >>]
           ELSE [raised |-> FALSE, user |-> found]

\* require_user: 401 without a cookie, without a user, with an inactive user,
\* and on any exception (except Exception: raise HTTPException(401))
RequireUserUnder(token, fault) ==
    LET fetched == FetchUserBySessionUnder(token, fault) IN
    IF token = NoToken THEN [status |-> 401, user |-> NoUser]
    ELSE IF fetched.raised THEN [status |-> 401, user |-> NoUser]
    ELSE IF fetched.user = <<>> THEN [status |-> 401, user |-> NoUser]
    ELSE IF ~fetched.user[1].is_active THEN [status |-> 401, user |-> NoUser]
    ELSE [status |-> 200, user |-> fetched.user[1]]

\* _plan_rank(plan): order.get((plan or "").lower(), 0)
_plan_rank(plan) ==
    CASE plan = "lifetime" -> 3
      [] plan = "pro" -> 2
      [] plan = "standard" -> 1
      [] plan = "early_bird" -> 1
      [] OTHER -> 0

\* (user.get("email") or "").strip().lower(): the dictionary
\* _fetch_user_by_session returns has the keys id, is_active, plan_type and
\* subscription_status
UserEmail(user) == IF "email" \in DOMAIN user THEN user.email ELSE ""

\* the dependency require_plan(required) returns; required "none" is None
RequirePlan(token, required, fault) ==
    LET auth == RequireUserUnder(token, fault)
        user == auth.user
        need == _plan_rank(required)
        have == _plan_rank(user.plan_type)
        subs == IF user.subscription_status = "none" THEN "" ELSE user.subscription_status
    IN IF auth.status # 200 THEN auth
       ELSE IF ADMIN_EMAIL # "" /\ UserEmail(user) = ADMIN_EMAIL THEN auth
       ELSE IF required = "none" THEN auth
       ELSE IF have >= need \/ subs \in {"active", "trialing"} THEN auth
       ELSE [status |-> 402, user |-> NoUser]

Gated(call, token, required, fault, answer) ==
    gate' = [call |-> call, token |-> token, required |-> required, fault |-> fault,
             status |-> answer.status, user |-> answer.user]

\* a route with Depends(require_user)
require_user(token, fault) ==
    /\ Gated("require_user", token, "none", fault, RequireUserUnder(token, fault))
    /\ UNCHANGED <<users, user_sessions, login_attempts, now, advances, resp, login,
                   creating, cred, issueVars, env, hook>>
    /\ UNCHANGED ledgerVars

\* a route with Depends(require_plan(required)), such as /dashboard with
\* require_plan("lifetime")
require_plan(token, required, fault) ==
    /\ Gated("require_plan", token, required, fault, RequirePlan(token, required, fault))
    /\ UNCHANGED <<users, user_sessions, login_attempts, now, advances, resp, login,
                   creating, cred, issueVars, env, hook>>
    /\ UNCHANGED ledgerVars

\* The rows of users: alice and bob, and the administrator's row as
\* ensure_admin_user_id creates it.
AdminUser == UserRow(3, ADMIN_EMAIL, ADMIN_FULL_NAME, ADMIN_LICENSE_KEY, "completed", TRUE)

GateInit == LedgerStart /\ AuthStartWith(RegisteredUsers \cup {AdminUser})

\* the users that log in, the plans the routes ask for
GateUserIds == {1, 3}
RequiredPlans == {"none", "lifetime", "standard"}

GateNext ==
    \/ \E u \in GateUserIds : create_session(u)
    \/ \E u \in GateUserIds : AuthManager_create_session(u)
    \/ \E t \in TokenInputs, f \in Faults : require_user(t, f)
    \/ \E t \in TokenInputs, f \in Faults, r \in RequiredPlans : require_plan(t, r, f)
    \/ \E t \in TokenInputs : api_logout(t, Absent, Absent)
    \/ \E e \in {"alice", ADMIN_EMAIL} : deactivate_user(e)
    \/ Tick
    \/ SkipDays

GateSpec == GateInit /\ [][GateNext]_vars

-----------------------------------------------------------------------------
(* Properties of the guarded routes *)

\* the request of this step went to a route guarded by call
Asked(call) == gate' # gate /\ gate'.call = call

\* the identity validation yielded for the request of this step: <<the users
\* row>>, or <<>> if the request was refused as unauthorized
Identity ==
    IF RequireUserUnder(gate'.token, gate'.fault).status # 200 THEN <<>>
    ELSE << CHOOSE u \in users : u.id = RequireUserUnder(gate'.token, gate'.fault).user.id >>

\* C19: require_plan(minPlan) admits a request with a valid session iff the
\* session's identity has the administrative e-mail or rank(plan) >=
\* rank(minPlan), with lifetime 3 > pro 2 > standard = early_bird 1 > none 0;
\* every other request is rejected.
C19_PlanGateAdmitsByRankOrAdmin ==
    [][ Asked("require_plan") =>
          LET rank == [p \in {"lifetime", "pro", "standard", "early_bird", "none"} |->
                          CASE p = "lifetime" -> 3 [] p = "pro" -> 2
                            [] p = "standard" -> 1 [] p = "early_bird" -> 1
                            [] OTHER -> 0]
              plan == RequireUserUnder(gate'.token, gate'.fault).user.plan_type
          IN gate'.status = 200 <=>
                /\ Identity # <<>>
                /\ \/ Identity[1].email = ADMIN_EMAIL
                   \/ rank[plan] >= rank[gate'.required]
      ]_vars

\* the session row of the token is there, active and not expired, and its user
\* is active
LiveSession(token) ==
    \E r \in user_sessions :
        /\ r.session_token = token
        /\ r.is_active
        /\ now < Instant(r.expires_at)
        /\ OwnerActive(r)

\* C20: validation fails closed: a lookup error, a decryption error, or a
\* missing, expired or inactive row makes require_user answer Unauthorized; it
\* never ends in a fatal error and never returns an identity in these cases.
C20_ValidationFailsClosed ==
    [][ Asked("require_user") =>
          /\ gate'.status \in {200, 401}
          /\ (gate'.fault \in {"OperationalError", "Exception"} \/ ~LiveSession(gate'.token))
                => gate'.status = 401 /\ gate'.user = NoUser
      ]_vars


-----------------------------------------------------------------------------
(* Properties of logout *)

\* the token is not the token of an active session row: it was never stored,
\* or its row was revoked
UnknownOrRevoked(token) ==
    /\ token # NoToken
    /\ \A r \in user_sessions : r.session_token = token => ~r.is_active

\* C21: logout with an unknown or an already revoked session token is a
\* no-op and not an error: it completes normally and changes no session row.
C21_LogoutOfUnknownTokenIsNoOp ==
    [][ resp' # resp /\ resp'.endpoint = "logout" /\ UnknownOrRevoked(resp'.token) =>
            resp'.status = 200 /\ user_sessions' = user_sessions
      ]_vars

-----------------------------------------------------------------------------
(* Properties of the billing gate and of issuing, on the ledger *)

\* worker p's call ends in this step because a statement raised
RaisedNow(p) == pc[p] \notin {"idle", "done"} /\ pc'[p] = "done" /\ Raised(ret'[p])

\* C22: when a statement of check_and_use_free_month raises a storage error
\* (the record cannot be read), the call reports should_charge = True with the
\* full amount, and the stored balance and history are left as they were.
C22_StorageErrorChargesInFull ==
    [][ \A p \in Workers :
          RaisedNow(p) /\ IsFreeMonth(p) =>
              /\ ret'[p].should_charge
              /\ ret'[p].charge_amount = FullCharge
              /\ UNCHANGED <<referrals, referral_uses, free_months_history>>
      ]_vars

\* C22, its case: a check_and_use_free_month call for alice, who had a free
\* month, raised after its UPDATE, and her balance is still 1.
C22_Witness ==
    \E p \in Workers :
        /\ pc[p] = "done" /\ IsFreeMonth(p) /\ Raised(ret[p])
        /\ op[p].user_email = "alice"
        /\ BalanceOf(pre[p], "alice") = 1
        /\ BalanceOf(Committed, "alice") = 1
        /\ writer = 0

\* C23: create_referral_for_user for an e-mail that already has a referral
\* record returns that record unchanged: its code, balance and counters are
\* never reset or replaced, also when two calls for the same e-mail interleave.
C23_IssueKeepsExistingRecord ==
    [][ Len(issued') = Len(issued) + 1 =>
          \A r \in referrals :
              r.user_email = issued'[Len(issued')].user_email =>
                  /\ r \in referrals'
                  /\ issued'[Len(issued')].referral_code = r.referral_code
      ]_vars


-----------------------------------------------------------------------------
(* The billing gate called again: POST /api/monthly-billing/{email} *)

\* The ledger after bob and carol have signed up under alice's code: two
\* accepted process_referral_signup calls, alice's balance is 2.
TwiceReferred ==
    SignupEffect(
        SignupEffect(Tables(IssuedRecords, <<>>, <<>>),
                     [NoOp EXCEPT !.name = "process_referral_signup", !.referral_code = "A",
                                  !.new_user_email = "bob", !.payment_amount = 2999]),
        [NoOp EXCEPT !.name = "process_referral_signup", !.referral_code = "A",
                     !.new_user_email = "carol", !.payment_amount = 2999])

BillingInit ==
    /\ referrals = TwiceReferred.referrals
    /\ referral_uses = TwiceReferred.referral_uses
    /\ free_months_history = TwiceReferred.free_months_history
    /\ writer = 0
    /\ txn = <<>>
    /\ pc = [p \in Workers |-> "idle"]
    /\ op = [p \in Workers |-> NoOp]
    /\ loc = [p \in Workers |-> NoLoc]
    /\ ret = [p \in Workers |-> NoRet]
    /\ pre = [p \in Workers |-> Tables({}, <<>>, <<>>)]
    /\ prev = NoPrev
    /\ calls = 0
    /\ AuthStart

\* process_monthly_billing calls check_and_use_free_month(email), one request
\* after the other
BillingSpec == BillingInit /\ [][SerialNext]_vars

\* C24: a credit is consumed at most once per billing cycle: when the billing
\* gate is called again for the same identity and the same cycle, after a call
\* that used a free month, the balance is not decremented a second time.
C24_OneCreditPerCycle ==
    \A p \in Workers :
        ( /\ pc[p] = "done"
          /\ IsFreeMonth(p)
          /\ prev.op = op[p]
          /\ ~Raised(prev.ret) /\ ~prev.ret.should_charge )
        => BalanceOf(Committed, op[p].user_email)
              = BalanceOf(prev.pre, op[p].user_email) - 1


-----------------------------------------------------------------------------
(* Properties of license keys *)

\* C25: license keys are unique over all identities: a freshly generated key
\* is checked against the store and generated again on collision, so
\* create_user never returns or stores a key another identity holds and never
\* fails because of a collision.
C25_LicenseKeysCollisionChecked ==
    /\ \A u, v \in users : u.license_key = v.license_key => u = v
    /\ cred.call = "create_user" /\ cred.found = <<>> =>
          /\ cred.valid
          /\ \E u \in users : /\ u.license_key = cred.returned_key
                              /\ Plain(u.email) = StripEmail(LowerEmail(cred.email))

\* the e-mail texts that are the administrator's after lower() and strip()
AdminEmailTexts ==
    { EmailText(ADMIN_EMAIL, upper, padded) : upper \in BOOLEAN, padded \in BOOLEAN }

\* C26: the administrator's license key is always the configured value as it
\* is: generate_license_key returns it, without generating one, for every
\* e-mail that is the administrator's after case and whitespace normalisation,
\* and no operation stores another value on the administrator's users row.
C26_AdminLicenseIsTheConfiguredValue ==
    /\ \A email \in AdminEmailTexts : GenerateLicenseKey(email) = {ADMIN_LICENSE_KEY}
    /\ \A u \in users : u.email = ADMIN_EMAIL => u.license_key = ADMIN_LICENSE_KEY

-----------------------------------------------------------------------------
(* The administrator's bypass in a process whose environment is incomplete *)

\* the environments a deployment can start the process with: each of the two
\* variables is set as configured, or is not set
Environments ==
    { [ADMIN_EMAIL |-> email, ADMIN_LICENSE_KEY |-> license_key] :
        email \in {Configured.ADMIN_EMAIL, ""},
        license_key \in {Configured.ADMIN_LICENSE_KEY, <<>>} }

EnvInit == LedgerStart /\ \E e \in Environments : AuthStartUnder(e, RegisteredUsers)

\* what a login form can send, the empty e-mail and the keys without a letter
\* or digit included
EnvEmails == {Plain(Configured.ADMIN_EMAIL), Plain("alice"), EmailText("", FALSE, TRUE)}

EnvKeys == { Configured.ADMIN_LICENSE_KEY, Str("P", "P", "-", "1"), <<" ">>, <<"-", " ">> }

EnvNext ==
    \/ \E e \in EnvEmails, k \in EnvKeys : authenticate_user_login(e, k)
    \/ \E e \in EnvEmails, k \in EnvKeys : authenticate_user_ep(e, k)
    \/ \E e \in EnvEmails, k \in EnvKeys : check_credentials(e, k)

EnvSpec == EnvInit /\ [][EnvNext]_vars

\* ADMIN_EMAIL or ADMIN_LICENSE_KEY is not set
Unconfigured == ADMIN_EMAIL = "" \/ ADMIN_LICENSE_KEY = <<>>

\* the claimed e-mail is empty, or the claimed key has no letter and no digit
EmptyClaim(email, license_key) ==
    StripEmail(email).name = "" \/ Norm(license_key) = <<>>

\* the last login was let in as the administrator: by authenticate_user_login
\* with the role "admin", or by the administrator's branch of /authenticate-user
LetInAsAdmin ==
    /\ login.authenticated
    /\ \/ login.role = "admin"
       \/ /\ login.path = "authenticate_user_ep"
          /\ LowerEmail(StripEmail(login.email)) = Plain(ADMIN_EMAIL)

\* the last /validate-credentials was answered by the administrator's branch
\* with 200
ShownAsAdmin ==
    /\ cred.call = "check_credentials"
    /\ cred.status = 200
    /\ LowerEmail(StripEmail(cred.email)) = Plain(ADMIN_EMAIL)

\* C27: the administrator's bypass lets nobody in while ADMIN_EMAIL or
\* ADMIN_LICENSE_KEY is not set: an empty claimed e-mail, or a claimed key that
\* normalises to the empty text (hyphens and blanks only), matches the
\* administrator in none of authenticate_user_login, /authenticate-user and
\* /validate-credentials.
C27_NoBypassWithoutConfiguration ==
    /\ LetInAsAdmin => ~Unconfigured /\ ~EmptyClaim(login.email, login.license_key)
    /\ ShownAsAdmin => ~Unconfigured /\ ~EmptyClaim(cred.email, cred.license_key)

-----------------------------------------------------------------------------
(* POST /stripe-webhook: checkout.session.completed *)

\* deliveries after which no further event is delivered
MaxDeliveries == 3

\* The record create_referral_for_user has stored for bob.
BobCode == AttemptCode(<<3, 4, 5, 6, 7>>, <<1, 2, 3, 4, 5>>, <<0, 0, 0, 0, 0>>)[1]

WebhookInit ==
    /\ LedgerStartWith({ReferralRow("alice", IssuedCode, 0, 0, 0),
                        ReferralRow("bob", BobCode, 0, 0, 0)})
    /\ AuthStart

\* AuthManager.create_user(email, full_name) run from its first statement to
\* its return, with license_key the key generate_license_key drew: the answer
\* and the rows of users afterwards.
CreateUser(email, full_name, license_key) ==
    LET existing == GetUserByEmail(email) IN
    IF existing # <<>>
      THEN [success |-> FALSE, error |-> "User already exists",
            license_key |-> existing[1].license_key, users |-> users]
    ELSE IF \E u \in users : u.license_key = license_key
      THEN [success |-> FALSE, error |-> "Failed to create user",
            license_key |-> <<>>, users |-> users]
    ELSE [success |-> TRUE, error |-> "none", license_key |-> license_key,
          users |-> users \cup {UserRow(1 + Cardinality(users), email.name, full_name,
                                        license_key, "completed", TRUE)}]

\* create_referral_for_user(user_email) run from its first statement to its
\* return, with referral_code the code generate_unique_referral_code drew: the
\* rows of referrals afterwards.
CreateReferralForUser(rows, user_email, referral_code) ==
    IF GetUserReferralInfo(rows, user_email) # {} THEN rows
    ELSE InsertOrReplace(rows, ReferralRow(user_email, referral_code, 0, 0, 0))

\* process_referral_signup(referral_code, new_user_email, payment_amount) run
\* from its first statement to its return on the tables t: the tables afterwards.
ProcessReferralSignup(t, referral_code, new_user_email, payment_amount) ==
    IF RowsByCode(t, referral_code) = {} THEN t
    ELSE IF UseCount(t, referral_code, new_user_email) > 0 THEN t
    ELSE SignupEffect(t, [referral_code |-> referral_code,
                          new_user_email |-> new_user_email,
                          payment_amount |-> payment_amount])

\* a key or a code is generated only by a call that found none stored: the
\* values drawn, or the one value <<>> that stands for no draw
DrawnIfNone(none, draws) == IF none THEN draws ELSE {<<>>}

\* if user_result['success']: in stripe_webhook
SucceededAlways(user_result) == TRUE

Succeeded(user_result) == user_result.success

\* POST /stripe-webhook with a checkout.session.completed event for a lifetime
\* purchase, customer_email `email` and metadata referral_code `referral_code`.
\* The handler is a coroutine that does not await between create_new_user and
\* its return, so it runs those statements as one step:
\*   user_result = create_new_user(email, full_name); only if it succeeded:
\*   create_referral_for_user(email), and, if the event carries a referral code
\*   for which referral_code_exists, process_referral_signup(referral_code,
\*   email, 29.99).  The answer is 200 in every case.
stripe_webhook(email, referral_code) ==
    /\ hook.deliveries < MaxDeliveries
    /\ Cardinality(users) < MaxUsers
    /\ \E license_key \in DrawnIfNone(GetUserByEmail(Plain(email)) = <<>>,
                                       GenerateLicenseKey(Plain(email))),
          new_code \in DrawnIfNone(GetUserReferralInfo(referrals, email) = {},
                                   GenerateUniqueReferralCode(referrals)) :
          LET user_result == CreateUser(Plain(email), "ProfitPal User", license_key)
              recorded == Tables(CreateReferralForUser(referrals, email, new_code),
                                 referral_uses, free_months_history)
              rewarded ==
                  IF referral_code # <<>> /\ referral_code \in StoredCodes(recorded.referrals)
                    THEN ProcessReferralSignup(recorded, referral_code, email, 2999)
                    ELSE recorded
          IN /\ IF Succeeded(user_result)
                  THEN /\ users' = user_result.users
                       /\ referrals' = rewarded.referrals
                       /\ referral_uses' = rewarded.referral_uses
                       /\ free_months_history' = rewarded.free_months_history
                  ELSE UNCHANGED <<users, referrals, referral_uses, free_months_history>>
             /\ hook' = [email |-> email, referral_code |-> referral_code,
                         deliveries |-> hook.deliveries + 1,
                         existed |-> GetUserByEmail(Plain(email)) # <<>>,
                         again |-> /\ hook.email = email
                                   /\ hook.referral_code = referral_code
                                   /\ GetUserByEmail(Plain(email)) # <<>>,
                         created |-> user_result.success]
    /\ UNCHANGED <<writer, txn, pc, op, loc, ret, pre, prev, calls>>
    /\ UNCHANGED <<user_sessions, login_attempts, now, advances, resp, login,
                   creating, cred, issueVars, gateVars, env>>

\* the customers of the events, one registered and one new, and the referral
\* codes the events carry: none, bob's, one that no record has
HookEmails == {"alice", "carol"}

HookCodes == {<<>>, BobCode, <<"Z">>}

WebhookNext ==
    \/ \E email \in HookEmails, referral_code \in HookCodes : stripe_webhook(email, referral_code)
    \/ \E email \in HookEmails : deactivate_user(email)

WebhookSpec == WebhookInit /\ [][WebhookNext]_vars

\* a referrer's balance is higher after the step than before it
Credited ==
    \E r \in referrals, q \in referrals' :
        q.user_email = r.user_email /\ q.free_months_balance > r.free_months_balance

-----------------------------------------------------------------------------
(* Sessions of a deactivated identity *)

\* sessions are created, presented to both validators and their owners
\* deactivated, while time passes
DeactivationNext ==
    \/ \E u \in UserIds : create_session(u)
    \/ \E u \in UserIds : AuthManager_create_session(u)
    \/ \E t \in TokenInputs : serve_settings(t)
    \/ \E t \in TokenInputs : check_session_validity(t)
    \/ \E e \in {"alice", "bob"} : deactivate_user(e)
    \/ Tick

DeactivationSpec == Init /\ [][DeactivationNext]_vars

\* the session row is active and not expired
RowInForce(r) == r.is_active /\ now < Instant(r.expires_at)

\* C29: after deactivate_user(email) succeeded no session token of that
\* identity validates any more, neither through require_user and
\* _fetch_user_by_session nor through AuthManager.validate_session, although
\* its session rows are still active and unexpired.
C29_DeactivationShutsSessionsOut ==
    \A r \in user_sessions :
        ~OwnerActive(r) =>
            /\ RequireUser(r.session_token).status = 401
            /\ ValidateSession(r.session_token) = <<>>
            /\ Validated(r) => resp.status = 401

\* a session row in force, of a deactivated owner, was presented and refused
C29_Witness ==
    \E r \in user_sessions :
        /\ RowInForce(r) /\ ~OwnerActive(r)
        /\ Validated(r) /\ resp.status = 401

-----------------------------------------------------------------------------
(* The session rows a login leaves *)

\* POST /api/authenticate with a body {email, license_key} that is not the
\* administrator's (the branches for a result without a user id, which only
\* the administrator's login has, are not followed): authenticate_user_login,
\* 401 unless authenticated, then security.create_session for the user, a
\* second session row, whose token goes into the cookie.
api_authenticate(email_typed, license_key_typed) ==
    /\ CanLogin
    /\ ~IsAdminLogin(email_typed, license_key_typed)
    /\ users' = users
    /\ LET email == StripEmail(email_typed)
           license_key == Strip(license_key_typed)
           auth == AuthenticateUserLogin(email, license_key)
       IN
       IF ~auth.authenticated
         THEN /\ user_sessions' = auth.sessions
              /\ login_attempts' = auth.attempts
              /\ LoggedIn("api_authenticate", email_typed, license_key_typed,
                          401, FALSE, "none", NoToken, 0, auth.read_store)
         ELSE /\ user_sessions' = auth.sessions \cup
                    {SessionRow(1 + Cardinality(auth.sessions), auth.user_id,
                                Stamp(" ", ExpiryOf(now)), TRUE)}
              /\ login_attempts' = auth.attempts
              /\ LoggedIn("api_authenticate", email_typed, license_key_typed,
                          200, TRUE, "none", 1 + Cardinality(auth.sessions),
                          auth.user_id, auth.read_store)
    /\ UNCHANGED <<now, advances, resp>>
    /\ UNCHANGED ledgerVars
    /\ UNCHANGED credVars

\* what the login forms send, and the tokens a request can carry
LoginEmails == {Plain("alice"), EmailText("alice", TRUE, TRUE), Plain(ADMIN_EMAIL)}

LoginKeys == {Str("P", "P", "-", "1"), Str("P", "P", "-", "2"), ADMIN_LICENSE_KEY}

LoginTokens == 0..MaxLoginRows

LoginNext ==
    \/ \E e \in LoginEmails, k \in LoginKeys : authenticate_user_ep(e, k)
    \/ \E e \in LoginEmails, k \in LoginKeys : api_authenticate(e, k)
    \/ \E t \in LoginTokens : api_logout(t, Absent, Absent)
    \/ \E t \in LoginTokens : serve_settings(t)
    \/ \E t \in LoginTokens \ {NoToken} : check_session_validity(t)

LoginSpec == Init /\ [][LoginNext]_vars

\* the step is a successful login of somebody other than the administrator
\* through one of the two endpoints
UserLoggedIn ==
    /\ login' # login
    /\ login'.path \in {"authenticate_user_ep", "api_authenticate"}
    /\ login'.status = 200
    /\ LowerEmail(StripEmail(login'.email)) # Plain(ADMIN_EMAIL)

\* the step is the logout of the token the last login put into the cookie
LoggedOut ==
    /\ resp' # resp
    /\ resp'.endpoint = "logout" /\ resp'.status = 200
    /\ login.status = 200 /\ resp'.token = login.token

\* C30: each successful login of a user other than the administrator through
\* /authenticate-user or /api/authenticate leaves exactly one new session row,
\* the one whose token the cookie carries; so after the logout of that token
\* no session row of that login is in force any more.
C30_OneSessionPerLogin ==
    [][ /\ UserLoggedIn =>
              user_sessions' \ user_sessions =
                  {r \in user_sessions' : r.session_token = login'.token}
        /\ LoggedOut =>
              \A r \in user_sessions' \ {q \in user_sessions' : q.session_token = login.token} :
                  ~r.is_active ]_vars

=============================================================================
